---------------------------- MODULE Spec2Model ----------------------------
(***************************************************************************)
(* A model of the 2026 Tax Scenario Comparator (TaxCalculator.jsx and its  *)
(* backup variant).                                                        *)
(*                                                                         *)
(* Numbers.  The program computes in IEEE doubles; the model computes in   *)
(* fixed point.  Amounts of money are whole cents.  A rate is a whole      *)
(* number of ten-thousandths (0.0275 is 275).  A product of an amount and  *)
(* a rate is exact inside calculateTaxExact (cents plus ten-thousandths of *)
(* a cent) and is truncated to the cent wherever a result is handed on.    *)
(* Percent inputs (mortgage rate, local tax rate) are whole tenths of a    *)
(* percent (5.5 is 55).  Values typed into a field are strings, values     *)
(* set by the program are numbers: a JS value is a record [k, n].          *)
(***************************************************************************)
EXTENDS Integers, Sequences, FiniteSets, TLC

VARIABLES
    \* ---- component state of TaxCalculator (useState) ----
    income, stGains, ltGains, hsa, k401, medicalPremiums, otherItemized,
    selectedStates, stateInputs,
    scenarioName, selectedScenario, savedScenarios,
    \* the backup variant's extra state
    cashFlowInputs, retirementInputs,
    \* ---- environment ----
    localStorage,      \* the stored scenario map (value under LOCAL_STORAGE_KEY)
    variant,           \* which source file's component runs: "main" or "backup"
    outcomeAtSave,     \* history: resultsByState at the time each name was last stored
    \* ---- calculateTax applied to a probe income ----
    taxBrackets,       \* name of the bracket table
    taxIncome,         \* income in whole dollars
    taxSteps,          \* number of one-dollar steps taken
    taxResult,         \* calculateTaxExact of the probe
    \* ---- getInterestSchedule applied to a probe loan ----
    schedAmount,       \* principal in whole dollars
    schedRate,         \* annual rate in tenths of a percent
    schedYears,        \* the requested length
    schedResult        \* getInterestSchedule of the probe

uiVars == <<income, stGains, ltGains, hsa, k401, medicalPremiums, otherItemized,
            selectedStates, stateInputs, scenarioName, selectedScenario,
            savedScenarios, cashFlowInputs, retirementInputs, localStorage,
            variant, outcomeAtSave>>
taxVars == <<taxBrackets, taxIncome, taxSteps, taxResult>>
schedVars == <<schedAmount, schedRate, schedYears, schedResult>>
probeVars == <<taxVars, schedVars>>
vars == <<uiVars, probeVars>>

---------------------------------------------------------------------------
(* Arithmetic helpers *)

Min(a, b) == IF a <= b THEN a ELSE b
\* a variant of Max without the comparison: a base is never floored at 0
Max_unfloored(a, b) == b
Max(a, b) == IF a >= b THEN a ELSE b

\* JS Infinity (the open top bracket); larger than every amount of the model
Infinity == 2147483647

\* JS NaN, where an amount can be NaN (undefined + number); never an amount
NaN == -2147483647

\* dollars to cents
Cents(d) == d * 100

\* an exact amount: <<cents, ten-thousandths of a cent>>, the second in 0..9999
XZero == <<0, 0>>
XAdd(a, b) == <<a[1] + b[1] + ((a[2] + b[2]) \div 10000), (a[2] + b[2]) % 10000>>
XLeq(a, b) == a[1] < b[1] \/ (a[1] = b[1] /\ a[2] <= b[2])
\* x cents times rate/10000, exact, without leaving 32 bits
XRate(x, rate) ==
    <<(x \div 10000) * rate + (((x % 10000) * rate) \div 10000),
      ((x % 10000) * rate) % 10000>>
\* amount * rate truncated to the cent (towards zero, as for both signs)
MulRate(x, rate) == IF x >= 0 THEN XRate(x, rate)[1] ELSE 0 - XRate(0 - x, rate)[1]
\* a variant of Div12: the take-home per biweekly paycheck
Div12_perPaycheck(x) == IF x >= 0 THEN x \div 26 ELSE 0 - ((0 - x) \div 26)
\* amount / 12 truncated to the cent
Div12(x) == IF x >= 0 THEN x \div 12 ELSE 0 - ((0 - x) \div 12)

---------------------------------------------------------------------------
(* Tax tables: TaxCalculator.jsx lines 5-43.  min and max are dollars. *)

FEDERAL_BRACKETS_MFJ == <<
    [rate |-> 1000, min |-> 0,      max |-> 23850],
    [rate |-> 1200, min |-> 23851,  max |-> 96950],
    [rate |-> 2200, min |-> 96951,  max |-> 206700],
    [rate |-> 2400, min |-> 206701, max |-> 394600],
    [rate |-> 3200, min |-> 394601, max |-> 501050],
    [rate |-> 3500, min |-> 501051, max |-> 751600],
    [rate |-> 3700, min |-> 751601, max |-> Infinity] >>

LTCG_BRACKETS_MFJ == <<
    [rate |-> 0,    max |-> 96950],
    [rate |-> 1500, max |-> 583750],
    [rate |-> 2000, max |-> Infinity] >>

FEDERAL_STANDARD_DEDUCTION_MFJ == 31500
SALT_CAP == 40000
FEDERAL_MORTGAGE_DEBT_LIMIT == 750000
CA_MORTGAGE_DEBT_LIMIT == 1000000
CA_SDI_RATE == 130
NIIT_RATE == 380
NIIT_THRESHOLD_MFJ == 250000

States == {"California", "Colorado", "Ohio", "North Carolina", "Texas", "Florida"}

STATE_STANDARD_DEDUCTIONS_MFJ ==
    [s \in {"California", "North Carolina"} |->
        IF s = "California" THEN 10404 ELSE 25500]

STATES_WITH_LOCAL_TAX == <<"Ohio">>

STATE_TAX_DATA == [s \in States |->
    CASE s = "California" -> <<
            [rate |-> 100,  min |-> 0,       max |-> 22108],
            [rate |-> 200,  min |-> 22109,   max |-> 52420],
            [rate |-> 400,  min |-> 52421,   max |-> 82734],
            [rate |-> 600,  min |-> 82735,   max |-> 114902],
            [rate |-> 800,  min |-> 114903,  max |-> 145194],
            [rate |-> 930,  min |-> 145195,  max |-> 742568],
            [rate |-> 1030, min |-> 742569,  max |-> 891080],
            [rate |-> 1130, min |-> 891081,  max |-> 1485132],
            [rate |-> 1230, min |-> 1485133, max |-> Infinity] >>
      [] s = "Colorado" -> << [rate |-> 440, min |-> 0, max |-> Infinity] >>
      [] s = "Ohio" -> <<
            [rate |-> 0,   min |-> 0,      max |-> 26050],
            [rate |-> 275, min |-> 26051,  max |-> 100000],
            [rate |-> 350, min |-> 100001, max |-> Infinity] >>
      [] s = "North Carolina" -> << [rate |-> 425, min |-> 0, max |-> Infinity] >>
      [] OTHER -> << >> ]

---------------------------------------------------------------------------
(* calculateTax: TaxCalculator.jsx lines 44-53 *)

\* a variant of bracketSpan that takes max - min for every bracket
bracketSpan_exclusive(bracket) ==
    IF bracket.max = Infinity THEN Infinity
    ELSE Cents(bracket.max - bracket.min)

\* bracket.max - (bracket.min > 0 ? bracket.min - 1 : 0), in cents
bracketSpan(bracket) ==
    IF bracket.max = Infinity THEN Infinity
    ELSE Cents(bracket.max - (IF bracket.min > 0 THEN bracket.min - 1 ELSE 0))

\* the for loop: i is the index of the next bracket
RECURSIVE taxLoop(_, _, _, _)
taxLoop(brackets, i, tax, remainingIncome) ==
    IF i > Len(brackets) \/ remainingIncome <= 0 THEN tax
    ELSE LET bracket == brackets[i]
             taxableInBracket == Min(remainingIncome, bracketSpan(bracket))
         IN  IF taxableInBracket > 0
             THEN taxLoop(brackets, i + 1,
                          XAdd(tax, XRate(taxableInBracket, bracket.rate)),
                          remainingIncome - taxableInBracket)
             ELSE taxLoop(brackets, i + 1, tax, remainingIncome)

\* a variant of taxLoop that forgets to reduce remainingIncome
RECURSIVE taxLoop_noDecrement(_, _, _, _)
taxLoop_noDecrement(brackets, i, tax, remainingIncome) ==
    IF i > Len(brackets) \/ remainingIncome <= 0 THEN tax
    ELSE LET bracket == brackets[i]
             taxableInBracket == Min(remainingIncome, bracketSpan(bracket))
         IN  taxLoop_noDecrement(brackets, i + 1,
                 XAdd(tax, XRate(taxableInBracket, bracket.rate)), remainingIncome)

calculateTaxExact_noDecrement(inc, brackets) ==
    taxLoop_noDecrement(brackets, 1, XZero, inc)

\* a variant of taxLoop with neither the break on remainingIncome <= 0 nor the test taxableInBracket > 0
RECURSIVE taxLoop_noGuard(_, _, _, _)
taxLoop_noGuard(brackets, i, tax, remainingIncome) ==
    IF i > Len(brackets) THEN tax
    ELSE LET bracket == brackets[i]
             taxableInBracket == Min(remainingIncome, bracketSpan(bracket))
         IN  taxLoop_noGuard(brackets, i + 1,
                 XAdd(tax, XRate(taxableInBracket, bracket.rate)),
                 remainingIncome - taxableInBracket)

calculateTaxExact_noGuard(inc, brackets) == taxLoop_noGuard(brackets, 1, XZero, inc)

\* income in cents; the tax as an exact amount.  With a NaN income every
\* comparison of the loop is false (NaN <= 0, Math.min(NaN, ..) > 0): the tax is 0.
calculateTaxExact(inc, brackets) ==
    IF inc = NaN THEN XZero ELSE taxLoop(brackets, 1, XZero, inc)

\* the tax in cents
calculateTax(inc, brackets) == calculateTaxExact(inc, brackets)[1]


---------------------------------------------------------------------------
(* Fixed-point reals for the amortization formulas.  A real x is the       *)
(* integer floor(x * FP).                                                  *)

Limb == 100 * 100
FP == Limb * Limb

\* floor(a * b / FP) for a, b >= 0, by limbs of 10^4
MulFP(a, b) ==
    LET a1 == a \div Limb
        a0 == a % Limb
        b1 == b \div Limb
        b0 == b % Limb
        m  == a1 * b0 + a0 * b1
    IN  a1 * b1 + (m \div Limb) + (((m % Limb) * Limb + a0 * b0) \div FP)

\* <<q, r>> with a * b = q * d + r, for 0 <= a < d, by doubling
RECURSIVE mulDivLoop(_, _, _)
mulDivLoop(a, b, d) ==
    IF b = 0 THEN <<0, 0>>
    ELSE LET h  == mulDivLoop(a, b \div 2, d)
             r2 == 2 * h[2] + (IF b % 2 = 1 THEN a ELSE 0)
         IN  <<2 * h[1] + (r2 \div d), r2 % d>>

\* floor(a * b / d) for a, b >= 0 and d > 0
MulDiv(a, b, d) == (a \div d) * b + mulDivLoop(a % d, b, d)[1]

\* Math.pow(base, n) for a fixed-point base and a natural n
RECURSIVE powFP(_, _)
powFP(base, n) ==
    IF n = 0 THEN FP
    ELSE IF n % 2 = 0
         THEN LET h == powFP(base, n \div 2) IN MulFP(h, h)
         ELSE MulFP(base, powFP(base, n - 1))

\* annual rate in tenths of a percent -> rate / 100 / 12 as a fixed-point real
monthlyRateOf(annualRate) == (annualRate * (FP \div 4000)) \div 3

\* a variant of paymentOf: payments deferred, nothing is paid
paymentOf_deferred(amount, r, n) == 0

\* amount * (r * (1+r)^n) / ((1+r)^n - 1), amount in cents
paymentOf(amount, r, n) ==
    LET growth == powFP(FP + r, n)
    IN  MulDiv(amount, MulFP(r, growth), growth - FP)

---------------------------------------------------------------------------
(* calculateMonthlyHousingCost: TaxCalculator.jsx lines 54-62.             *)
(* amount, propTax, insurance in cents; rate in tenths of a percent.       *)

calculateMonthlyHousingCost(amount, rate, propTax, insurance) ==
    IF amount = 0 \/ rate = 0 THEN 0
    ELSE LET monthlyRate == monthlyRateOf(rate)
             numberOfPayments == 30 * 12
             principalAndInterest == paymentOf(amount, monthlyRate, numberOfPayments)
             monthlyPropTax == Div12(propTax)
             monthlyInsurance == Div12(insurance)
         IN  principalAndInterest + monthlyPropTax + monthlyInsurance

---------------------------------------------------------------------------
(* getInterestSchedule: TaxCalculator.jsx lines 64-79.                     *)
(* The result is the sequence of the years' interest (entry idx is year    *)
(* idx); the empty sequence when there is no loan.                         *)

\* the for loop, months 12 * (y - 1) + k for k = 0 .. 11 of year y:
\* <<balance after the year, interest of the year>>.  The loop ends for good
\* once balance <= 0, which leaves the balance and the sums as they are.
RECURSIVE monthsLoop(_, _, _, _, _)
monthsLoop(k, balance, r, monthlyPayment, yearSum) ==
    IF ~(k < 12 /\ balance > 0) THEN <<balance, yearSum>>
    ELSE LET interest  == MulFP(balance, r)
             principal == monthlyPayment - interest
         IN  monthsLoop(k + 1, balance - principal, r, monthlyPayment,
                        yearSum + interest)

\* the for loop, year by year: yearInterest holds the years before y
RECURSIVE scheduleLoop(_, _, _, _, _, _)
scheduleLoop(y, years, balance, r, monthlyPayment, yearInterest) ==
    IF y > years THEN yearInterest
    ELSE LET m == monthsLoop(0, balance, r, monthlyPayment, 0)
         IN  scheduleLoop(y + 1, years, m[1], r, monthlyPayment,
                          Append(yearInterest, m[2]))

\* a variant of getInterestSchedule that amortizes over the requested length
getInterestSchedule_termOfYears(amount, annualRate, years) ==
    IF amount = 0 \/ annualRate = 0 THEN << >>
    ELSE LET n == years * 12
             r == monthlyRateOf(annualRate)
             monthlyPayment == paymentOf(amount, r, n)
         IN  scheduleLoop(1, years, amount, r, monthlyPayment, << >>)

getInterestSchedule(amount, annualRate, years) ==
    IF amount = 0 \/ annualRate = 0 THEN << >>
    ELSE LET n == 30 * 12
             r == monthlyRateOf(annualRate)
             monthlyPayment == paymentOf(amount, r, n)
         IN  scheduleLoop(1, years, amount, r, monthlyPayment, << >>)

\* getInterestSchedule(...)[0]?.interest || 0
firstYearInterest(schedule) == IF Len(schedule) >= 1 THEN schedule[1] ELSE 0


---------------------------------------------------------------------------
(* JS values held in the component state.  [k |-> "number", n |-> v] is    *)
(* the number v; [k |-> "string", n |-> v] is the text of the numeric      *)
(* literal v, as a type="number" field delivers it; k = "empty" is the     *)
(* empty string "" (a cleared field); k = "undefined" is a missing key.    *)
(* n is dollars for an amount and tenths of a percent for a rate.          *)

Num(v) == [k |-> "number", n |-> v]
Str(v) == [k |-> "string", n |-> v]
EmptyStr == [k |-> "empty", n |-> 0]
Undef == [k |-> "undefined", n |-> 0]
\* a string that is no number, such as "n/a": Number(v) is NaN
Text == [k |-> "text", n |-> 0]

\* JS truthiness: 0, "" and undefined are falsy; the string "0" is truthy
Truthy(v) == (v.k = "number" /\ v.n # 0) \/ v.k \in {"string", "text"}
\* a || d
OrElse(v, d) == IF Truthy(v) THEN v ELSE d
\* a ?? d
Nullish(v, d) == IF v.k = "undefined" THEN d ELSE v
\* Number(v) || 0 : Number("") is 0, Number(undefined) is NaN, NaN || 0 is 0
NumberOrZero(v) == IF v.k \in {"number", "string"} THEN v.n ELSE 0

Range(seq) == {seq[i] : i \in 1..Len(seq)}

\* a variant of currentStateInputs in which every state's rent is California's
currentStateInputs_sharedRent(inputs, state) ==
    IF state \in DOMAIN inputs
    THEN [inputs[state] EXCEPT
             !.monthlyRent = IF "California" \in DOMAIN inputs
                             THEN inputs["California"].monthlyRent ELSE @]
    ELSE [f \in {"mortgageAmount", "mortgageRate", "propertyTax", "homeInsurance",
                 "localTaxRate", "monthlyRent"} |-> Undef]

\* stateInputs[state] || {} , then one field of it
HousingFields == {"mortgageAmount", "mortgageRate", "propertyTax", "homeInsurance",
                  "localTaxRate", "monthlyRent"}
NoHousing == [f \in HousingFields |-> Undef]

currentStateInputs(inputs, state) ==
    IF state \in DOMAIN inputs THEN inputs[state] ELSE NoHousing

---------------------------------------------------------------------------
(* resultsByState: TaxCalculator.jsx lines 388-541 *)

\* lines 390-400
grossIncome      == Cents(NumberOrZero(income))
shortTermGains   == Cents(NumberOrZero(stGains))
longTermGains    == Cents(NumberOrZero(ltGains))
hsaDed           == Cents(NumberOrZero(hsa))
k401Ded          == Cents(NumberOrZero(k401))
medicalDed       == Cents(NumberOrZero(medicalPremiums))
otherItemizedVal == Cents(NumberOrZero(otherItemized))
totalIncome      == grossIncome + shortTermGains + longTermGains
aboveTheLineDeductions == k401Ded + hsaDed + medicalDed
agi              == totalIncome - aboveTheLineDeductions

\* lines 402-406
ssWageBase == 182400
ssTax == MulRate(Min(grossIncome, Cents(ssWageBase)), 620)
medicareTax == MulRate(grossIncome, 145)
additionalMedicareTax ==
    IF agi > Cents(250000) THEN MulRate(agi - Cents(250000), 90) ELSE 0
ficaTax == ssTax + medicareTax + additionalMedicareTax

\* the values of lines 390-406, which every state's evaluation shares
household ==
    [grossIncome |-> grossIncome, shortTermGains |-> shortTermGains,
     longTermGains |-> longTermGains, hsaDed |-> hsaDed, k401Ded |-> k401Ded,
     medicalDed |-> medicalDed, otherItemizedVal |-> otherItemizedVal,
     totalIncome |-> totalIncome, agi |-> agi, ficaTax |-> ficaTax]

\* STATE_STANDARD_DEDUCTIONS_MFJ[state] || 0, in cents
stateStandardDedOf(state) ==
    IF state \in DOMAIN STATE_STANDARD_DEDUCTIONS_MFJ
    THEN Cents(STATE_STANDARD_DEDUCTIONS_MFJ[state]) ELSE 0

\* a variant of stateDeductionToUseOf that applies the federal SALT cap to the
\* state itemized total
stateDeductionToUseOf_saltCapped(stateItemizedDed, stateStandardDed) ==
    Max(Min(stateItemizedDed, Cents(SALT_CAP)), stateStandardDed)

\* line 435
stateDeductionToUseOf(stateItemizedDed, stateStandardDed) ==
    Max(stateItemizedDed, stateStandardDed)

\* a variant of cappedSaltOf without the cap
cappedSaltOf_uncapped(totalSaltPaid) == totalSaltPaid

\* line 442
cappedSaltOf(totalSaltPaid) == Min(totalSaltPaid, Cents(SALT_CAP))

\* a variant of deductionToUseOf that always itemizes
deductionToUseOf_alwaysItemized(totalFederalItemizedDeductions) ==
    totalFederalItemizedDeductions

\* line 444
deductionToUseOf(totalFederalItemizedDeductions) ==
    Max(totalFederalItemizedDeductions, Cents(FEDERAL_STANDARD_DEDUCTION_MFJ))

\* a variant of capitalGainsBuy that fills the tiers from zero, whatever the
\* ordinary income
capitalGainsBuy_unstacked(ordinaryIncome, gains) ==
    LET zeroRateMax      == Cents(LTCG_BRACKETS_MFJ[1].max)
        fifteenRateMax   == Cents(LTCG_BRACKETS_MFJ[2].max)
        taxableAtZero    == Min(gains, zeroRateMax)
        remaining1       == gains - taxableAtZero
        taxableAtFifteen == Min(remaining1, fifteenRateMax - zeroRateMax)
        remaining2       == remaining1 - taxableAtFifteen
    IN  [taxableAtZero    |-> taxableAtZero,
         taxableAtFifteen |-> taxableAtFifteen,
         remainingLTCG    |-> remaining2,
         capitalGainsTax  |-> MulRate(taxableAtFifteen, 1500)
                              + (IF remaining2 > 0 THEN MulRate(remaining2, 2000) ELSE 0)]

\* lines 449-458: the long-term gain stacked on the ordinary income
capitalGainsBuy(ordinaryIncome, gains) ==
    LET zeroRateMax      == Cents(LTCG_BRACKETS_MFJ[1].max)
        taxableAtZero    == Min(gains, Max(0, zeroRateMax - ordinaryIncome))
        remaining1       == gains - taxableAtZero
        fifteenRateMax   == Cents(LTCG_BRACKETS_MFJ[2].max)
        taxableAtFifteen == Min(remaining1,
                                Max(0, fifteenRateMax - Max(zeroRateMax, ordinaryIncome)))
        remaining2       == remaining1 - taxableAtFifteen
    IN  [taxableAtZero    |-> taxableAtZero,
         taxableAtFifteen |-> taxableAtFifteen,
         remainingLTCG    |-> remaining2,
         capitalGainsTax  |-> MulRate(taxableAtFifteen, 1500)
                              + (IF remaining2 > 0 THEN MulRate(remaining2, 2000) ELSE 0)]

\* lines 488-495: the same for the rent scenario
capitalGainsRent(rentOrdinaryIncome, gains) ==
    LET zeroRateMax          == Cents(LTCG_BRACKETS_MFJ[1].max)
        fifteenRateMax       == Cents(LTCG_BRACKETS_MFJ[2].max)
        rentTaxableAtZero    == Min(gains, Max(0, zeroRateMax - rentOrdinaryIncome))
        remaining1           == gains - rentTaxableAtZero
        rentTaxableAtFifteen == Min(remaining1,
                                    Max(0, fifteenRateMax - Max(zeroRateMax, rentOrdinaryIncome)))
        remaining2           == remaining1 - rentTaxableAtFifteen
    IN  [taxableAtZero    |-> rentTaxableAtZero,
         taxableAtFifteen |-> rentTaxableAtFifteen,
         remainingLTCG    |-> remaining2,
         capitalGainsTax  |-> MulRate(rentTaxableAtFifteen, 1500)
                              + (IF remaining2 > 0 THEN MulRate(remaining2, 2000) ELSE 0)]

\* a variant of rentDeductionToUseOf that lets the renter deduct the SALT cap
rentDeductionToUseOf_withSalt(standard) == Max(standard, Cents(SALT_CAP))

\* line 484
rentDeductionToUseOf(standard) == Max(standard, 0)

\* lines 408-506: the body of selectedStates.forEach for one state, with every
\* local of the body as a field; h holds the values of lines 390-406 and inputs
\* is stateInputs
scenarioOf(h, inputs, state) ==
    LET cur == currentStateInputs(inputs, state)
        mortgageAmountVal == Cents(NumberOrZero(cur.mortgageAmount))
        mortgageRateVal   == NumberOrZero(cur.mortgageRate)
        propertyTaxVal    == Cents(NumberOrZero(cur.propertyTax))
        homeInsuranceVal  == Cents(NumberOrZero(cur.homeInsurance))
        \* Number(localTaxRate) / 100 || 0, in ten-thousandths
        localTaxRateVal   == NumberOrZero(cur.localTaxRate) * 10
        monthlyRentVal    == Cents(NumberOrZero(cur.monthlyRent))
        \* --- buy scenario ---
        stateAgi == IF state = "California" THEN h.agi + h.hsaDed ELSE h.agi
        stateMortgageDebtLimit ==
            IF state = "California" THEN CA_MORTGAGE_DEBT_LIMIT
            ELSE FEDERAL_MORTGAGE_DEBT_LIMIT
        stateDeductibleMortgagePrincipal ==
            Min(mortgageAmountVal, Cents(stateMortgageDebtLimit))
        stateAnnualMortgageInterest ==
            firstYearInterest(getInterestSchedule(stateDeductibleMortgagePrincipal,
                                                  mortgageRateVal, 1))
        federalDeductibleMortgagePrincipal ==
            Min(mortgageAmountVal, Cents(FEDERAL_MORTGAGE_DEBT_LIMIT))
        federalAnnualMortgageInterest ==
            firstYearInterest(getInterestSchedule(federalDeductibleMortgagePrincipal,
                                                  mortgageRateVal, 1))
        stateItemizedDed == stateAnnualMortgageInterest + propertyTaxVal + h.otherItemizedVal
        stateStandardDed == stateStandardDedOf(state)
        stateDeductionToUse == stateDeductionToUseOf(stateItemizedDed, stateStandardDed)
        stateTaxableIncome == Max(0, stateAgi - stateDeductionToUse)
        stateTax == calculateTax(stateTaxableIncome, STATE_TAX_DATA[state])
        sdiTax == IF state = "California" THEN MulRate(h.grossIncome, CA_SDI_RATE) ELSE 0
        localTax == IF localTaxRateVal > 0 THEN MulRate(h.agi, localTaxRateVal) ELSE 0
        totalSaltPaid == stateTax + propertyTaxVal + sdiTax + localTax
        cappedSalt == cappedSaltOf(totalSaltPaid)
        totalFederalItemizedDeductions ==
            federalAnnualMortgageInterest + cappedSalt + h.otherItemizedVal
        deductionToUse == deductionToUseOf(totalFederalItemizedDeductions)
        federalTaxableIncome == Max(0, h.agi - deductionToUse)
        ordinaryIncome == federalTaxableIncome - h.longTermGains
        ordinaryTax == calculateTax(ordinaryIncome, FEDERAL_BRACKETS_MFJ)
        ltcg == capitalGainsBuy(ordinaryIncome, h.longTermGains)
        capitalGainsTax == ltcg.capitalGainsTax
        netInvestmentIncome == h.shortTermGains + h.longTermGains
        niitBase == Max(0, Min(netInvestmentIncome, h.agi - Cents(NIIT_THRESHOLD_MFJ)))
        niit == MulRate(niitBase, NIIT_RATE)
        totalFederalTax == ordinaryTax + capitalGainsTax + niit
        totalTaxBurden == totalFederalTax + h.ficaTax + stateTax + sdiTax + localTax
        \* a percentage, in hundredths of a percent
        effectiveTaxRate ==
            IF h.totalIncome > 0
            THEN (IF totalTaxBurden >= 0 THEN MulDiv(totalTaxBurden, 10000, h.totalIncome)
                  ELSE 0 - MulDiv(0 - totalTaxBurden, 10000, h.totalIncome))
            ELSE 0
        annualTakeHome == h.totalIncome - totalTaxBurden - h.k401Ded - h.hsaDed - h.medicalDed
        monthlyTakeHome == Div12(annualTakeHome)
        monthlyHousingCost ==
            calculateMonthlyHousingCost(mortgageAmountVal, mortgageRateVal,
                                        propertyTaxVal, homeInsuranceVal)
        monthlyNetCash == monthlyTakeHome - monthlyHousingCost
        \* --- rent scenario ---
        rentStateAgi == IF state = "California" THEN h.agi + h.hsaDed ELSE h.agi
        rentStateStandardDed == stateStandardDedOf(state)
        rentStateTaxableIncome == Max(0, rentStateAgi - rentStateStandardDed)
        rentStateTax == calculateTax(rentStateTaxableIncome, STATE_TAX_DATA[state])
        rentSdiTax == IF state = "California" THEN MulRate(h.grossIncome, CA_SDI_RATE) ELSE 0
        rentLocalTax == IF localTaxRateVal > 0 THEN MulRate(h.agi, localTaxRateVal) ELSE 0
        rentTotalSaltPaid == rentStateTax + rentSdiTax + rentLocalTax
        rentCappedSalt == Min(rentTotalSaltPaid, Cents(SALT_CAP))
        rentDeductionToUse == rentDeductionToUseOf(Cents(FEDERAL_STANDARD_DEDUCTION_MFJ))
        rentFederalTaxableIncome == Max(0, h.agi - rentDeductionToUse)
        rentOrdinaryIncome == rentFederalTaxableIncome - h.longTermGains
        rentOrdinaryTax == calculateTax(rentOrdinaryIncome, FEDERAL_BRACKETS_MFJ)
        rentLtcg == capitalGainsRent(rentOrdinaryIncome, h.longTermGains)
        rentCapitalGainsTax == rentLtcg.capitalGainsTax
        rentNetInvestmentIncome == h.shortTermGains + h.longTermGains
        rentNiitBase ==
            Max(0, Min(rentNetInvestmentIncome, h.agi - Cents(NIIT_THRESHOLD_MFJ)))
        rentNiit == MulRate(rentNiitBase, NIIT_RATE)
        rentTotalFederalTax == rentOrdinaryTax + rentCapitalGainsTax + rentNiit
        rentTotalTaxBurden ==
            rentTotalFederalTax + h.ficaTax + rentStateTax + rentSdiTax + rentLocalTax
        rentAnnualTakeHome ==
            h.totalIncome - rentTotalTaxBurden - h.k401Ded - h.hsaDed - h.medicalDed
        rentMonthlyTakeHome == Div12(rentAnnualTakeHome)
        rentMonthlyHousingCost == monthlyRentVal
        rentMonthlyNetCash == rentMonthlyTakeHome - rentMonthlyHousingCost
    IN  [ \* the inputs of the state, as numbers
          mortgageAmountVal |-> mortgageAmountVal, mortgageRateVal |-> mortgageRateVal,
          propertyTaxVal |-> propertyTaxVal, homeInsuranceVal |-> homeInsuranceVal,
          localTaxRateVal |-> localTaxRateVal, monthlyRentVal |-> monthlyRentVal,
          \* buy scenario
          stateAgi |-> stateAgi,
          stateDeductibleMortgagePrincipal |-> stateDeductibleMortgagePrincipal,
          stateAnnualMortgageInterest |-> stateAnnualMortgageInterest,
          federalDeductibleMortgagePrincipal |-> federalDeductibleMortgagePrincipal,
          federalAnnualMortgageInterest |-> federalAnnualMortgageInterest,
          stateItemizedDed |-> stateItemizedDed, stateStandardDed |-> stateStandardDed,
          stateDeductionToUse |-> stateDeductionToUse,
          stateTaxableIncome |-> stateTaxableIncome, stateTax |-> stateTax,
          sdiTax |-> sdiTax, localTax |-> localTax, totalSaltPaid |-> totalSaltPaid,
          cappedSalt |-> cappedSalt,
          totalFederalItemizedDeductions |-> totalFederalItemizedDeductions,
          deductionToUse |-> deductionToUse,
          federalTaxableIncome |-> federalTaxableIncome,
          ordinaryIncome |-> ordinaryIncome, ordinaryTax |-> ordinaryTax,
          taxableAtZero |-> ltcg.taxableAtZero, taxableAtFifteen |-> ltcg.taxableAtFifteen,
          capitalGainsTax |-> capitalGainsTax, niit |-> niit,
          totalFederalTax |-> totalFederalTax, totalTaxBurden |-> totalTaxBurden,
          effectiveTaxRate |-> effectiveTaxRate, annualTakeHome |-> annualTakeHome,
          monthlyTakeHome |-> monthlyTakeHome, monthlyHousingCost |-> monthlyHousingCost,
          monthlyNetCash |-> monthlyNetCash,
          \* rent scenario
          rentStateAgi |-> rentStateAgi, rentStateStandardDed |-> rentStateStandardDed,
          rentStateTaxableIncome |-> rentStateTaxableIncome, rentStateTax |-> rentStateTax,
          rentSdiTax |-> rentSdiTax, rentLocalTax |-> rentLocalTax,
          rentTotalSaltPaid |-> rentTotalSaltPaid, rentCappedSalt |-> rentCappedSalt,
          rentDeductionToUse |-> rentDeductionToUse,
          rentFederalTaxableIncome |-> rentFederalTaxableIncome,
          rentOrdinaryIncome |-> rentOrdinaryIncome, rentOrdinaryTax |-> rentOrdinaryTax,
          rentTaxableAtZero |-> rentLtcg.taxableAtZero,
          rentTaxableAtFifteen |-> rentLtcg.taxableAtFifteen,
          rentCapitalGainsTax |-> rentCapitalGainsTax, rentNiit |-> rentNiit,
          rentTotalFederalTax |-> rentTotalFederalTax,
          rentTotalTaxBurden |-> rentTotalTaxBurden,
          rentAnnualTakeHome |-> rentAnnualTakeHome,
          rentMonthlyTakeHome |-> rentMonthlyTakeHome,
          rentMonthlyHousingCost |-> rentMonthlyHousingCost,
          rentMonthlyNetCash |-> rentMonthlyNetCash ]

\* lines 508-538: newResults[state], built from the locals x of the body
resultOf(h, x) ==
    [ totalTaxBurden |-> x.totalTaxBurden, effectiveTaxRate |-> x.effectiveTaxRate,
      annualTakeHome |-> x.annualTakeHome, monthlyTakeHome |-> x.monthlyTakeHome,
      totalFederalTax |-> x.totalFederalTax, ficaTax |-> h.ficaTax,
      stateTax |-> x.stateTax, sdiTax |-> x.sdiTax, localTax |-> x.localTax,
      niit |-> x.niit, agi |-> h.agi, deductionToUse |-> x.deductionToUse,
      federalTaxableIncome |-> x.federalTaxableIncome,
      stateTaxableIncome |-> x.stateTaxableIncome, totalSaltPaid |-> x.totalSaltPaid,
      monthlyHousingCost |-> x.monthlyHousingCost, monthlyNetCash |-> x.monthlyNetCash,
      itemized |-> [ mortgageInterest |-> x.federalAnnualMortgageInterest,
                     salt |-> x.cappedSalt,
                     other |-> h.otherItemizedVal,
                     stateIncomeTax |-> x.stateTax,
                     propertyTax |-> x.propertyTaxVal ],
      stateStandardDed |-> x.stateStandardDed,
      rent |-> [ totalTaxBurden |-> x.rentTotalTaxBurden,
                 annualTakeHome |-> x.rentAnnualTakeHome,
                 monthlyTakeHome |-> x.rentMonthlyTakeHome,
                 monthlyHousingCost |-> x.rentMonthlyHousingCost,
                 monthlyNetCash |-> x.rentMonthlyNetCash,
                 deductionToUse |-> x.rentDeductionToUse,
                 federalTaxableIncome |-> x.rentFederalTaxableIncome,
                 stateTaxableIncome |-> x.rentStateTaxableIncome,
                 totalSaltPaid |-> x.rentTotalSaltPaid,
                 stateTax |-> x.rentStateTax,
                 sdiTax |-> x.rentSdiTax,
                 localTax |-> x.rentLocalTax,
                 niit |-> x.rentNiit,
                 stateStandardDed |-> x.rentStateStandardDed ] ]

\* lines 388-541 as a function of what the memo depends on
resultsByStateOf(h, selected, inputs) ==
    [state \in Range(selected) |->
        LET x == scenarioOf(h, inputs, state) IN resultOf(h, x)]

\* the locals of the body for one state, in the current state of the component
scenario(state) == scenarioOf(household, stateInputs, state)

\* the memoized value: one entry per selected state
resultsByState == resultsByStateOf(household, selectedStates, stateInputs)


---------------------------------------------------------------------------
(* calcMonthlyTakeHomeDelta: TaxCalculator.jsx lines 84-130 *)

\* lines 106-117: the long-term gain stacked on the ordinary income
capitalGainsDelta(ordinaryIncome, gains) ==
    LET zeroRateMax      == Cents(LTCG_BRACKETS_MFJ[1].max)
        fifteenRateMax   == Cents(LTCG_BRACKETS_MFJ[2].max)
        taxableAtZero    == Min(gains, Max(0, zeroRateMax - ordinaryIncome))
        remaining1       == gains - taxableAtZero
        taxableAtFifteen == Min(remaining1,
                                Max(0, fifteenRateMax - Max(zeroRateMax, ordinaryIncome)))
        remaining2       == remaining1 - taxableAtFifteen
    IN  [taxableAtZero    |-> taxableAtZero,
         taxableAtFifteen |-> taxableAtFifteen,
         remainingLTCG    |-> remaining2,
         capitalGainsTax  |-> MulRate(taxableAtFifteen, 1500)
                              + (IF remaining2 > 0 THEN MulRate(remaining2, 2000) ELSE 0)]

\* the body, with its locals as fields; p is the argument object
takeHomeDeltaLocals(p) ==
    LET newFedTaxableIncome == Max(0, p.agi - p.newDeduction)
        ordinaryIncome == newFedTaxableIncome - p.longTermGains
        newOrdinaryTax == calculateTax(ordinaryIncome, FEDERAL_BRACKETS_MFJ)
        ltcg == capitalGainsDelta(ordinaryIncome, p.longTermGains)
        newCapitalGainsTax == ltcg.capitalGainsTax
        netInvestmentIncome == p.shortTermGains + p.longTermGains
        niitBase ==
            Max(0, Min(netInvestmentIncome, p.agi - Cents(NIIT_THRESHOLD_MFJ)))
        newNiit == MulRate(niitBase, NIIT_RATE)
        newTotalFederalTax == newOrdinaryTax + newCapitalGainsTax + newNiit
        newTotalTaxBurden ==
            newTotalFederalTax + p.ficaTax + p.stateTax + p.sdiTax + p.localTax
        newAnnualTakeHome ==
            p.totalIncome - newTotalTaxBurden - p.k401Ded - p.hsaDed - p.medicalDed
        newMonthlyTakeHome == Div12(newAnnualTakeHome)
    IN  [newFedTaxableIncome |-> newFedTaxableIncome, ordinaryIncome |-> ordinaryIncome,
         newOrdinaryTax |-> newOrdinaryTax,
         taxableAtZero |-> ltcg.taxableAtZero, taxableAtFifteen |-> ltcg.taxableAtFifteen,
         newCapitalGainsTax |-> newCapitalGainsTax, newNiit |-> newNiit,
         newTotalFederalTax |-> newTotalFederalTax,
         newTotalTaxBurden |-> newTotalTaxBurden,
         newAnnualTakeHome |-> newAnnualTakeHome,
         newMonthlyTakeHome |-> newMonthlyTakeHome]

calcMonthlyTakeHomeDelta(p) == takeHomeDeltaLocals(p).newMonthlyTakeHome

(* calcStateMonthlyTakeHomeDelta: TaxCalculator.jsx lines 132-141.         *)
(* origDeduction can be NaN: then agi - origDeduction and Math.max(0, NaN) *)
(* are NaN.                                                                *)
calcStateMonthlyTakeHomeDelta(p) ==
    IF p.stateTaxBrackets = << >> THEN 0
    ELSE LET stateTaxableIncomeOrig ==
                 IF p.origDeduction = NaN THEN NaN ELSE Max(0, p.agi - p.origDeduction)
             stateTaxableIncomeNew ==
                 IF p.newDeduction = NaN THEN NaN ELSE Max(0, p.agi - p.newDeduction)
             origStateTax ==
                 calculateTax(stateTaxableIncomeOrig, p.stateTaxBrackets)
                 + p.sdiTax + p.localTax
             newStateTax ==
                 calculateTax(stateTaxableIncomeNew, p.stateTaxBrackets)
                 + p.sdiTax + p.localTax
             diff == origStateTax - newStateTax
         IN  Div12(diff)

---------------------------------------------------------------------------
(* perStateInterestSchedules: TaxCalculator.jsx lines 544-625 *)

\* schedule[y - 1]?.interest || 0
interestOfYear(schedule, y) == IF y <= Len(schedule) THEN schedule[y] ELSE 0

\* lines 547-621 for one state: the rows of the years 2..10, each with the
\* locals of the loop body as fields
phaseoutRows(state) ==
    LET cur == currentStateInputs(stateInputs, state)
        res == resultsByState[state]
        mortgageAmountVal == Cents(NumberOrZero(cur.mortgageAmount))
        mortgageRateVal   == NumberOrZero(cur.mortgageRate)
        propertyTaxVal    == Cents(NumberOrZero(cur.propertyTax))
        cappedSalt        == res.itemized.salt
        origFedDeduction  == res.deductionToUse
        origMonthlyTakeHome == res.monthlyTakeHome
        stateStandardDed  == res.stateStandardDed
        stateTaxBrackets  == STATE_TAX_DATA[state]
        federalDeductibleMortgagePrincipal ==
            Min(mortgageAmountVal, Cents(FEDERAL_MORTGAGE_DEBT_LIMIT))
        schedule == getInterestSchedule(federalDeductibleMortgagePrincipal,
                                        mortgageRateVal, 10)
        \* schedule[0]?.interest + propertyTaxVal + otherItemizedVal, then Math.max:
        \* undefined + number is NaN, and Math.max(NaN, x) is NaN
        origStateDed ==
            IF Len(schedule) = 0 THEN NaN
            ELSE Max(schedule[1] + propertyTaxVal + otherItemizedVal, stateStandardDed)
        row(y) ==
            LET thisYearInterest == interestOfYear(schedule, y)
                newDeduction == thisYearInterest + cappedSalt + otherItemizedVal
                deductionUsed == Max(newDeduction, Cents(FEDERAL_STANDARD_DEDUCTION_MFJ))
                args == [origDeduction |-> origFedDeduction,
                         newDeduction |-> deductionUsed,
                         agi |-> res.agi,
                         federalTaxableIncome |-> res.federalTaxableIncome,
                         totalIncome |-> grossIncome + shortTermGains + longTermGains,
                         shortTermGains |-> shortTermGains,
                         longTermGains |-> longTermGains,
                         k401Ded |-> k401Ded, hsaDed |-> hsaDed, medicalDed |-> medicalDed,
                         ficaTax |-> res.ficaTax, stateTax |-> res.stateTax,
                         sdiTax |-> res.sdiTax, localTax |-> res.localTax,
                         niit |-> res.niit, totalFederalTax |-> res.totalFederalTax]
                delta == takeHomeDeltaLocals(args)
                newMonthlyTakeHome == delta.newMonthlyTakeHome
                stateDedUsed ==
                    Max(thisYearInterest + propertyTaxVal + otherItemizedVal,
                        stateStandardDed)
                stateTaxDelta ==
                    calcStateMonthlyTakeHomeDelta(
                        [origDeduction |-> origStateDed, newDeduction |-> stateDedUsed,
                         agi |-> res.agi, state |-> state,
                         stateStandardDed |-> stateStandardDed,
                         stateTaxBrackets |-> stateTaxBrackets,
                         localTax |-> res.localTax, sdiTax |-> res.sdiTax])
                dollarImpact == newMonthlyTakeHome - origMonthlyTakeHome + stateTaxDelta
            IN  [year |-> y, interest |-> thisYearInterest, impact |-> dollarImpact,
                 deductionUsed |-> deductionUsed, delta |-> delta,
                 stateDedUsed |-> stateDedUsed, origStateDed |-> origStateDed,
                 stateTaxDelta |-> stateTaxDelta]
    IN  [i \in 1..9 |-> row(i + 1)]

\* yearRows.push({ year, interest, impact })
perStateInterestSchedules ==
    [state \in Range(selectedStates) |->
        LET rows == phaseoutRows(state)
        IN  [i \in 1..9 |-> [year |-> rows[i].year, interest |-> rows[i].interest,
                             impact |-> rows[i].impact]]]

\* a variant of displaySchedule computed on the deductible principal
displaySchedule_capped(state) ==
    LET c == currentStateInputs(stateInputs, state)
    IN  getInterestSchedule(Min(Cents(NumberOrZero(c.mortgageAmount)),
                                Cents(FEDERAL_MORTGAGE_DEBT_LIMIT)),
                            NumberOrZero(c.mortgageRate), 10)

\* lines 777-782: the schedule shown in a state's details panel
displaySchedule(state) ==
    LET c == currentStateInputs(stateInputs, state)
    IN  getInterestSchedule(Cents(NumberOrZero(c.mortgageAmount)),
                            NumberOrZero(c.mortgageRate), 10)

\* lines 849-863: the table rows, displaySchedule.slice(1, 10) matched with
\* perStateInterestSchedules[state]?.[idx]?.impact
phaseoutTable(state) ==
    LET shown == displaySchedule(state)
        projected == perStateInterestSchedules[state]
    IN  [idx \in 1 .. Max(0, Len(shown) - 1) |->
            [year |-> idx + 1, interest |-> shown[idx + 1],
             impact |-> projected[idx].impact]]

---------------------------------------------------------------------------
(* The component: TaxCalculator.jsx lines 278-385 (variant "main") and     *)
(* TaxCalculator - Backup.jsx lines 1068-1210 (variant "backup").          *)

Housing(amount, rate, propTax, insurance, localRate, rent) ==
    [mortgageAmount |-> amount, mortgageRate |-> rate, propertyTax |-> propTax,
     homeInsurance |-> insurance, localTaxRate |-> localRate, monthlyRent |-> rent]

\* useState initial values, lines 279-293
InitialStateInputs ==
    [s \in {"California", "Texas", "Colorado", "Ohio", "North Carolina"} |->
        CASE s = "California" ->
                Housing(Num(1000000), Num(55), Num(12000), Num(1500), Undef, Num(4000))
          [] s = "Texas" ->
                Housing(Num(450000), Num(58), Num(9500), Num(2000), Undef, Num(2500))
          [] s = "Colorado" ->
                Housing(Num(600000), Num(56), Num(6000), Num(1200), Undef, Num(2200))
          [] s = "Ohio" ->
                Housing(Num(300000), Num(59), Num(5500), Num(1000), Num(25), Num(1800))
          [] OTHER ->
                Housing(Num(400000), Num(57), Num(4000), Num(1100), Undef, Num(2000))]

\* the housing inputs handleStateSelection gives a state that has none, line 379
DefaultHousing == Housing(Num(500000), Num(60), Num(7000), Num(1200), Num(0), Num(2000))

\* Backup.jsx lines 1092-1096; ages in years, rates in tenths of a percent
InitialRetirementInputs ==
    [portfolioGrowthRate |-> Num(70), currentAge |-> Num(37), retirementAge |-> Num(50),
     currentAssets |-> Num(100000), baseAnnualSavings |-> Num(25000),
     fiNumber |-> Num(2000000), swr |-> Num(40)]

\* the object {}
EmptyMap == [x \in {} |-> 0]

\* the state after construction and the mount effect (lines 279-298, 312-314),
\* with `stored` in localStorage from earlier sessions
InitComponent(v, stored) ==
    /\ variant = v
    /\ income = Num(250000)
    /\ stGains = Num(5000)
    /\ ltGains = Num(10000)
    /\ hsa = Num(8300)
    /\ k401 = Num(46000)
    /\ medicalPremiums = Num(6000)
    /\ otherItemized = Num(5000)
    /\ selectedStates = <<"California", "Ohio", "Texas">>
    /\ stateInputs = InitialStateInputs
    /\ scenarioName = ""
    /\ selectedScenario = ""
    /\ cashFlowInputs = EmptyMap
    /\ retirementInputs = InitialRetirementInputs
    /\ localStorage = stored
    /\ savedScenarios = stored
    /\ outcomeAtSave = EmptyMap

TaxProbeIdle ==
    /\ taxBrackets = "federal"
    /\ taxIncome = 0
    /\ taxSteps = 0
    /\ taxResult = XZero

ScheduleProbeIdle ==
    /\ schedAmount = 0
    /\ schedRate = 0
    /\ schedYears = 0
    /\ schedResult = << >>

ProbesIdle == TaxProbeIdle /\ ScheduleProbeIdle

\* the field setters handed to InputField, lines 679-686 (onChange passes e.target.value, line 154)
setIncome(v) == income' = v /\ UNCHANGED <<stGains, ltGains, hsa, k401, medicalPremiums, otherItemized, selectedStates, stateInputs, scenarioName, selectedScenario, savedScenarios, cashFlowInputs, retirementInputs, localStorage, variant, outcomeAtSave, probeVars>>
setStGains(v) == stGains' = v /\ UNCHANGED <<income, ltGains, hsa, k401, medicalPremiums, otherItemized, selectedStates, stateInputs, scenarioName, selectedScenario, savedScenarios, cashFlowInputs, retirementInputs, localStorage, variant, outcomeAtSave, probeVars>>
setLtGains(v) == ltGains' = v /\ UNCHANGED <<income, stGains, hsa, k401, medicalPremiums, otherItemized, selectedStates, stateInputs, scenarioName, selectedScenario, savedScenarios, cashFlowInputs, retirementInputs, localStorage, variant, outcomeAtSave, probeVars>>
setHsa(v) == hsa' = v /\ UNCHANGED <<income, stGains, ltGains, k401, medicalPremiums, otherItemized, selectedStates, stateInputs, scenarioName, selectedScenario, savedScenarios, cashFlowInputs, retirementInputs, localStorage, variant, outcomeAtSave, probeVars>>
setK401(v) == k401' = v /\ UNCHANGED <<income, stGains, ltGains, hsa, medicalPremiums, otherItemized, selectedStates, stateInputs, scenarioName, selectedScenario, savedScenarios, cashFlowInputs, retirementInputs, localStorage, variant, outcomeAtSave, probeVars>>
setMedicalPremiums(v) == medicalPremiums' = v /\ UNCHANGED <<income, stGains, ltGains, hsa, k401, otherItemized, selectedStates, stateInputs, scenarioName, selectedScenario, savedScenarios, cashFlowInputs, retirementInputs, localStorage, variant, outcomeAtSave, probeVars>>
setOtherItemized(v) == otherItemized' = v /\ UNCHANGED <<income, stGains, ltGains, hsa, k401, medicalPremiums, selectedStates, stateInputs, scenarioName, selectedScenario, savedScenarios, cashFlowInputs, retirementInputs, localStorage, variant, outcomeAtSave, probeVars>>

\* lines 366-368
handleStateInputChange(state, field, value) ==
    /\ stateInputs' =
          [s \in DOMAIN stateInputs \cup {state} |->
              IF s = state
              THEN [currentStateInputs(stateInputs, state) EXCEPT ![field] = value]
              ELSE stateInputs[s]]
    /\ UNCHANGED <<income, stGains, ltGains, hsa, k401, medicalPremiums, otherItemized, selectedStates, scenarioName, selectedScenario, savedScenarios, cashFlowInputs, retirementInputs, localStorage, variant, outcomeAtSave, probeVars>>

\* prevSelectedStates.filter(s => s !== state)
RECURSIVE without(_, _)
without(seq, state) ==
    IF seq = << >> THEN << >>
    ELSE IF Head(seq) = state THEN without(Tail(seq), state)
         ELSE <<Head(seq)>> \o without(Tail(seq), state)

\* lines 370-385
handleStateSelection(state) ==
    /\ selectedStates' =
          IF state \in Range(selectedStates) THEN without(selectedStates, state)
          ELSE Append(selectedStates, state)
    /\ stateInputs' =
          IF state \notin DOMAIN stateInputs
          THEN [s \in DOMAIN stateInputs \cup {state} |->
                   IF s = state THEN DefaultHousing ELSE stateInputs[s]]
          ELSE stateInputs
    /\ UNCHANGED <<income, stGains, ltGains, hsa, k401, medicalPremiums, otherItemized, scenarioName, selectedScenario, savedScenarios, cashFlowInputs, retirementInputs, localStorage, variant, outcomeAtSave, probeVars>>


\* setScenarioName, the onChange of the "New Scenario Name" field, line 658
setScenarioName(name) ==
    /\ scenarioName' = name
    /\ UNCHANGED <<income, stGains, ltGains, hsa, k401, medicalPremiums, otherItemized, selectedStates, stateInputs, selectedScenario, savedScenarios, cashFlowInputs, retirementInputs, localStorage, variant, outcomeAtSave, probeVars>>

\* { ...map, [key]: value }
Put(map, key, value) ==
    [x \in DOMAIN map \cup {key} |-> IF x = key THEN value ELSE map[x]]
\* delete map[key]
Remove(map, key) == [x \in DOMAIN map \ {key} |-> map[x]]

\* lines 301-307: JSON.parse of the stored text (strings, numbers, arrays and
\* objects come back as they were written; a key holding undefined is not written)
getStoredScenarios == localStorage

\* the object literal of lines 318 and 359; Backup.jsx lines 1125 and 1168 add two keys
scenarioData ==
    IF variant = "main"
    THEN [income |-> income, stGains |-> stGains, ltGains |-> ltGains, hsa |-> hsa,
          k401 |-> k401, medicalPremiums |-> medicalPremiums,
          otherItemized |-> otherItemized, selectedStates |-> selectedStates,
          stateInputs |-> stateInputs]
    ELSE [income |-> income, stGains |-> stGains, ltGains |-> ltGains, hsa |-> hsa,
          k401 |-> k401, medicalPremiums |-> medicalPremiums,
          otherItemized |-> otherItemized, selectedStates |-> selectedStates,
          stateInputs |-> stateInputs, cashFlowInputs |-> cashFlowInputs,
          retirementInputs |-> retirementInputs]

\* lines 316-324 (Backup.jsx 1122-1131)
handleSaveScenario ==
    IF scenarioName = ""
    THEN UNCHANGED vars
    ELSE LET updatedScenarios == Put(getStoredScenarios, scenarioName, scenarioData)
         IN  /\ localStorage' = updatedScenarios
             /\ savedScenarios' = updatedScenarios
             /\ scenarioName' = ""
             /\ outcomeAtSave' = Put(outcomeAtSave, scenarioName, resultsByState)
             /\ UNCHANGED <<income, stGains, ltGains, hsa, k401, medicalPremiums, otherItemized, selectedStates, stateInputs, selectedScenario, cashFlowInputs, retirementInputs, variant, probeVars>>

\* scenario.key, undefined when the blob has no such key
blobValue(blob, key) == IF key \in DOMAIN blob THEN blob[key] ELSE Undef

\* lines 326-340: every field is restored with  scenario.key || default
handleLoadScenario(name) ==
    /\ variant = "main"
    /\ IF name \notin DOMAIN savedScenarios
       THEN UNCHANGED vars
       ELSE LET blob == savedScenarios[name]
            IN  /\ income' = OrElse(blobValue(blob, "income"), Num(250000))
                /\ stGains' = OrElse(blobValue(blob, "stGains"), Num(5000))
                /\ ltGains' = OrElse(blobValue(blob, "ltGains"), Num(10000))
                /\ hsa' = OrElse(blobValue(blob, "hsa"), Num(8300))
                /\ k401' = OrElse(blobValue(blob, "k401"), Num(46000))
                /\ medicalPremiums' = OrElse(blobValue(blob, "medicalPremiums"), Num(6000))
                /\ otherItemized' = OrElse(blobValue(blob, "otherItemized"), Num(5000))
                /\ selectedStates' =
                      IF "selectedStates" \in DOMAIN blob THEN blob.selectedStates
                      ELSE <<"California", "Texas">>
                /\ stateInputs' =
                      IF "stateInputs" \in DOMAIN blob THEN blob.stateInputs ELSE EmptyMap
                /\ selectedScenario' = name
                /\ UNCHANGED <<scenarioName, savedScenarios, cashFlowInputs, retirementInputs, localStorage, variant, outcomeAtSave, probeVars>>

\* { ...prev, ...(scenario.retirementInputs || {}) }
mergeOnto(prev, given) ==
    [x \in DOMAIN prev \cup DOMAIN given |-> IF x \in DOMAIN given THEN given[x] ELSE prev[x]]

\* Backup.jsx lines 1133-1150: every field is restored with  scenario.key ?? default
handleLoadScenario_Backup(name) ==
    /\ variant = "backup"
    /\ IF name \notin DOMAIN savedScenarios
       THEN UNCHANGED vars
       ELSE LET blob == savedScenarios[name]
            IN  /\ income' = Nullish(blobValue(blob, "income"), Num(250000))
                /\ stGains' = Nullish(blobValue(blob, "stGains"), Num(5000))
                /\ ltGains' = Nullish(blobValue(blob, "ltGains"), Num(10000))
                /\ hsa' = Nullish(blobValue(blob, "hsa"), Num(8300))
                /\ k401' = Nullish(blobValue(blob, "k401"), Num(46000))
                /\ medicalPremiums' = Nullish(blobValue(blob, "medicalPremiums"), Num(6000))
                /\ otherItemized' = Nullish(blobValue(blob, "otherItemized"), Num(5000))
                /\ selectedStates' =
                      IF "selectedStates" \in DOMAIN blob THEN blob.selectedStates
                      ELSE <<"California", "Texas">>
                /\ stateInputs' =
                      IF "stateInputs" \in DOMAIN blob THEN blob.stateInputs ELSE EmptyMap
                /\ cashFlowInputs' =
                      IF "cashFlowInputs" \in DOMAIN blob THEN blob.cashFlowInputs
                      ELSE EmptyMap
                /\ retirementInputs' =
                      mergeOnto(retirementInputs,
                                IF "retirementInputs" \in DOMAIN blob
                                THEN blob.retirementInputs ELSE EmptyMap)
                /\ selectedScenario' = name
                /\ UNCHANGED <<scenarioName, savedScenarios, localStorage, variant, outcomeAtSave, probeVars>>

\* a variant of handleDeleteScenario that keeps the deleted name selected
handleDeleteScenario_keepsSelection(confirmed) ==
    IF selectedScenario = "" \/ ~confirmed
    THEN UNCHANGED vars
    ELSE LET updatedScenarios == Remove(getStoredScenarios, selectedScenario)
         IN  /\ localStorage' = updatedScenarios
             /\ savedScenarios' = updatedScenarios
             /\ outcomeAtSave' = Remove(outcomeAtSave, selectedScenario)
             /\ UNCHANGED <<income, stGains, ltGains, hsa, k401, medicalPremiums, otherItemized, selectedStates, stateInputs, scenarioName, selectedScenario, cashFlowInputs, retirementInputs, variant, probeVars>>

\* lines 342-352 (Backup.jsx 1152-1160); confirmed is the answer to window.confirm
handleDeleteScenario(confirmed) ==
    IF selectedScenario = "" \/ ~confirmed
    THEN UNCHANGED vars
    ELSE LET updatedScenarios == Remove(getStoredScenarios, selectedScenario)
         IN  /\ localStorage' = updatedScenarios
             /\ savedScenarios' = updatedScenarios
             /\ selectedScenario' = ""
             /\ outcomeAtSave' = Remove(outcomeAtSave, selectedScenario)
             /\ UNCHANGED <<income, stGains, ltGains, hsa, k401, medicalPremiums, otherItemized, selectedStates, stateInputs, scenarioName, cashFlowInputs, retirementInputs, variant, probeVars>>

\* lines 354-364 (Backup.jsx 1162-1173)
handleUpdateScenario ==
    IF selectedScenario = ""
    THEN UNCHANGED vars
    ELSE LET updatedScenarios == Put(getStoredScenarios, selectedScenario, scenarioData)
         IN  /\ localStorage' = updatedScenarios
             /\ savedScenarios' = updatedScenarios
             /\ outcomeAtSave' = Put(outcomeAtSave, selectedScenario, resultsByState)
             /\ UNCHANGED <<income, stGains, ltGains, hsa, k401, medicalPremiums, otherItemized, selectedStates, stateInputs, scenarioName, selectedScenario, cashFlowInputs, retirementInputs, variant, probeVars>>

\* Backup.jsx lines 1180-1182
handleCashFlowInputChange(state, field, value) ==
    /\ variant = "backup"
    /\ cashFlowInputs' =
          Put(cashFlowInputs, state,
              Put(IF state \in DOMAIN cashFlowInputs THEN cashFlowInputs[state] ELSE EmptyMap,
                  field, value))
    /\ UNCHANGED <<income, stGains, ltGains, hsa, k401, medicalPremiums, otherItemized, selectedStates, stateInputs, scenarioName, selectedScenario, savedScenarios, retirementInputs, localStorage, variant, outcomeAtSave, probeVars>>

\* Backup.jsx lines 1185-1193: the seven setters, by the key they set
handleRetirementInputChange(key, val) ==
    /\ variant = "backup"
    /\ retirementInputs' = Put(retirementInputs, key, val)
    /\ UNCHANGED <<income, stGains, ltGains, hsa, k401, medicalPremiums, otherItemized, selectedStates, stateInputs, scenarioName, selectedScenario, savedScenarios, cashFlowInputs, localStorage, variant, outcomeAtSave, probeVars>>

---------------------------------------------------------------------------
(* RetirementAnalysis, the backsolver: Backup.jsx lines 836-935.           *)
(* Money in cents, the growth rate in tenths of a percent.  The solved     *)
(* years are kept as the expression the code evaluates:                    *)
(*   k = "quotient": a / b                  (zero growth, line 909)        *)
(*   k = "log":      ln(a / b) / ln(1 + p/1000)            (line 905)      *)
(*   k = "Infinity", k = "NaN"                                             *)
(* and compared and rounded through powers of 1 + p/1000, each product     *)
(* floored to the cent.                                                    *)

\* Number(v): Number("") is 0; a missing key or a text that is no number is NaN
NumberOf(v) ==
    IF v.k \in {"number", "string"} THEN v.n ELSE IF v.k = "empty" THEN 0 ELSE NaN

\* floor(x * p / 1000)
permille(x, p) == (x \div 1000) * p + ((x % 1000) * p) \div 1000

Never == [k |-> "Infinity", a |-> 0, b |-> 0, p |-> 0]

\* the longest span of years that is counted year by year
MaxSolvedYears == 110

\* up to limit factors 1 + p/1000 applied to v until it reaches goal:
\* <<the product, the number of factors>>
RECURSIVE reachLoop(_, _, _, _, _)
reachLoop(v, goal, p, n, limit) ==
    IF v >= goal \/ n >= limit THEN <<v, n>>
    ELSE reachLoop(v + permille(v, p), goal, p, n + 1, limit)

\* the least n with v * (1 + p/1000)^n >= goal, counted up to MaxSolvedYears
RECURSIVE reachSteps(_, _, _, _)
reachSteps(v, goal, p, n) ==
    IF v >= goal \/ n >= MaxSolvedYears THEN n
    ELSE LET m == reachLoop(v, goal, p, 0, 10)
         IN  reachSteps(m[1], goal, p, n + m[2])

\* years > n  (false for NaN)
yearsAbove(y, n) ==
    CASE y.k = "Infinity" -> TRUE
      [] y.k = "NaN"      -> FALSE
      [] y.k = "quotient" -> y.a > n * y.b
      [] y.k = "log"      -> reachSteps(y.b, y.a, y.p, 0) > n

\* Math.ceil(years) of finite years
ceilYears(y) ==
    CASE y.k = "quotient" -> 0 - ((0 - y.a) \div y.b)
      [] y.k = "log" ->
            IF y.a > y.b THEN reachSteps(y.b, y.a, y.p, 0)
            ELSE 0 - (reachSteps(y.a, y.b + 1, y.p, 0) - 1)

\* lines 897-912: let years, for one state
solvedYears(rate, targetAssets, assets, contribution) ==
    LET leq0(x) == x # NaN /\ x <= 0
        gt0(x) == x # NaN /\ x > 0
        assetsGrowth ==
            IF assets = NaN \/ rate = NaN THEN NaN ELSE permille(assets, rate)
    IN  IF leq0(contribution) /\ leq0(assetsGrowth) THEN Never
        ELSE IF gt0(rate)
        THEN LET val1 == IF targetAssets = NaN \/ contribution = NaN THEN NaN
                         ELSE permille(targetAssets, rate) + contribution
                 val2 == IF assetsGrowth = NaN \/ contribution = NaN THEN NaN
                         ELSE assetsGrowth + contribution
             IN  IF gt0(val1) /\ gt0(val2)
                 THEN [k |-> "log", a |-> val1, b |-> val2, p |-> rate]
                 ELSE Never
        ELSE IF gt0(contribution)
             THEN IF targetAssets = NaN \/ assets = NaN
                  THEN [k |-> "NaN", a |-> 0, b |-> 0, p |-> 0]
                  ELSE [k |-> "quotient", a |-> targetAssets - assets,
                        b |-> contribution, p |-> 0]
             ELSE Never

\* lines 840-846: the base state is the first selected state
baseState == IF selectedStates = << >> THEN "" ELSE selectedStates[1]

\* lines 883-895 for the base state, whose cashDelta against itself is 0
backsolverInputs ==
    LET amount(v) == IF NumberOf(v) = NaN THEN NaN ELSE Cents(NumberOf(v))
        cashDelta == 0
    IN  [rate |-> NumberOf(retirementInputs.portfolioGrowthRate),
         targetAssets |-> amount(retirementInputs.fiNumber),
         currentAssets |-> amount(retirementInputs.currentAssets),
         totalAnnualContribution |->
            IF amount(retirementInputs.baseAnnualSavings) = NaN THEN NaN
            ELSE amount(retirementInputs.baseAnnualSavings) + cashDelta]

\* lines 880-921, the row of the base state and the chart horizon
backsolverCalculations ==
    IF baseState = "" \/ baseState \notin DOMAIN resultsByState
    THEN [table |-> << >>, maxYears |-> 0]
    ELSE LET i == backsolverInputs
             years == solvedYears(i.rate, i.targetAssets, i.currentAssets,
                                  i.totalAnnualContribution)
             finalYears == IF yearsAbove(years, 100) THEN Never ELSE years
             maxYears == IF finalYears.k \in {"quotient", "log"}
                         THEN Max(0, ceilYears(finalYears)) ELSE 0
         IN  [table |-> <<[state |-> baseState, years |-> finalYears,
                           totalAnnualContribution |-> i.totalAnnualContribution]>>,
              maxYears |-> Min(maxYears + 2, 50)]

\* lines 925-928: the chart's loop body, assets * (1 + rate) + contribution,
\* run n times (at most 10 at a time)
RECURSIVE compoundLoop(_, _, _, _)
compoundLoop(assets, contribution, rate, n) ==
    IF n <= 0 \/ assets = NaN THEN assets
    ELSE compoundLoop(assets + permille(assets, rate) + contribution,
                      contribution, rate, n - 1)

RECURSIVE compound(_, _, _, _)
compound(assets, contribution, rate, n) ==
    IF n <= 10 \/ assets = NaN THEN compoundLoop(assets, contribution, rate, n)
    ELSE compound(compoundLoop(assets, contribution, rate, 10),
                  contribution, rate, n - 10)

---------------------------------------------------------------------------
(* calculateTax applied to probe incomes: every table, incomes in whole    *)
(* dollars around every bracket edge, stepped one dollar at a time.        *)

MaxTaxSteps == 4

TableNames == {"federal"} \cup States
tableOf(name) == IF name = "federal" THEN FEDERAL_BRACKETS_MFJ ELSE STATE_TAX_DATA[name]

\* two dollars below every bracket edge, below zero, and a high income
TaxStartIncomes(name) ==
    {0 - 3, 0 - 50000, 1000000}
    \cup {tableOf(name)[i].max - 2 :
             i \in {j \in 1..Len(tableOf(name)) : tableOf(name)[j].max # Infinity}}

\* the highest marginal rate of a table (0 for the empty table)
TopRate(brackets) ==
    IF brackets = << >> THEN 0
    ELSE CHOOSE r \in {brackets[i].rate : i \in 1..Len(brackets)} :
            \A i \in 1..Len(brackets) : brackets[i].rate <= r

\* the tax on one dollar at a rate, as an exact amount
OneDollarAt(rate) == XRate(Cents(1), rate)

ComponentIdle == InitComponent("main", EmptyMap)

InitTax ==
    /\ ComponentIdle
    /\ ScheduleProbeIdle
    /\ taxBrackets \in TableNames
    /\ taxIncome \in TaxStartIncomes(taxBrackets)
    /\ taxSteps = 0
    /\ taxResult = calculateTaxExact(Cents(taxIncome), tableOf(taxBrackets))

TaxStep ==
    /\ taxSteps < MaxTaxSteps
    /\ taxSteps' = taxSteps + 1
    /\ taxIncome' = taxIncome + 1
    /\ taxResult' = calculateTaxExact(Cents(taxIncome'), tableOf(taxBrackets))
    /\ UNCHANGED <<taxBrackets, uiVars, schedVars>>

NextTax == TaxStep

SpecTax == InitTax /\ [][NextTax]_vars

---------------------------------------------------------------------------
(* getInterestSchedule applied to probe loans: every requested length from *)
(* 1 year to one year past the 30-year term, asked for one after another.  *)

MaxScheduleYears == 31

ScheduleAmounts == {1000, 450000, 750000, 2000000}
ScheduleRates == {1, 55, 80}

InitSchedule ==
    /\ ComponentIdle
    /\ TaxProbeIdle
    /\ schedAmount \in ScheduleAmounts
    /\ schedRate \in ScheduleRates
    /\ schedYears = 1
    /\ schedResult = getInterestSchedule(Cents(schedAmount), schedRate, 1)

ScheduleStep ==
    /\ schedYears < MaxScheduleYears
    /\ schedYears' = schedYears + 1
    /\ schedResult' = getInterestSchedule(Cents(schedAmount), schedRate, schedYears')
    /\ UNCHANGED <<schedAmount, schedRate, uiVars, taxVars>>

NextSchedule == ScheduleStep

SpecSchedule == InitSchedule /\ [][NextSchedule]_vars

---------------------------------------------------------------------------
(* A session of the household form: every household field edited, a few    *)
(* housing edits, one more state selected.  Typed values are strings, as   *)
(* e.target.value is.                                                      *)

InitEval == ComponentIdle /\ ProbesIdle

NextEval ==
    \/ \E v \in {EmptyStr, Str(670550)} : setIncome(v)
    \/ \E v \in {Str(40000)} : setStGains(v)
    \/ \E v \in {EmptyStr} : setLtGains(v)
    \/ \E v \in {EmptyStr} : setHsa(v)
    \/ \E v \in {EmptyStr} : setK401(v)
    \/ \E v \in {EmptyStr} : setMedicalPremiums(v)
    \/ \E v \in {EmptyStr} : setOtherItemized(v)
    \/ \E v \in {Str(2000000)} : handleStateInputChange("California", "mortgageAmount", v)
    \/ \E v \in {EmptyStr} : handleStateInputChange("Texas", "mortgageAmount", v)
    \/ \E v \in {EmptyStr} : handleStateInputChange("Ohio", "localTaxRate", v)
    \/ handleStateSelection("Florida")

SpecEval == InitEval /\ [][NextEval]_vars

(* A session of the housing forms: every housing field of California       *)
(* edited, states selected and deselected, two incomes.                    *)

HousingEdits ==
    {<<"California", "mortgageAmount", EmptyStr>>,
     <<"California", "mortgageAmount", Str(2000000)>>,
     <<"California", "mortgageRate", EmptyStr>>,
     <<"California", "propertyTax", EmptyStr>>,
     <<"California", "homeInsurance", EmptyStr>>,
     <<"California", "monthlyRent", Str(5000)>>,
     <<"Ohio", "monthlyRent", EmptyStr>>}

InitHousing == ComponentIdle /\ ProbesIdle

NextHousing ==
    \/ \E v \in {Str(670550)} : setIncome(v)
    \/ \E e \in HousingEdits : handleStateInputChange(e[1], e[2], e[3])
    \/ \E state \in {"Florida", "Texas"} : handleStateSelection(state)

SpecHousing == InitHousing /\ [][NextHousing]_vars

(* A session of the scenario manager, in either variant of the component,  *)
(* starting with nothing stored or with a blob of an earlier version that  *)
(* holds the income only.                                                  *)

ScenarioNames == {"a", "old"}
PartialBlob == [income |-> Num(120000)]
StoredAtStart == {EmptyMap, [n \in {"old"} |-> PartialBlob]}

Init ==
    /\ \E v \in {"main", "backup"} : \E stored \in StoredAtStart : InitComponent(v, stored)
    /\ ProbesIdle

Next ==
    \/ \E v \in {EmptyStr} : setIncome(v)
    \/ \E name \in {"a"} : setScenarioName(name)
    \/ handleSaveScenario
    \/ \E name \in ScenarioNames : handleLoadScenario(name)
    \/ \E name \in ScenarioNames : handleLoadScenario_Backup(name)
    \/ \E confirmed \in BOOLEAN : handleDeleteScenario(confirmed)
    \/ handleUpdateScenario
    \/ \E v \in {Str(500)} : handleCashFlowInputChange("Texas", "Groceries", v)
    \/ \E v \in {Str(40)} : handleRetirementInputChange("currentAge", v)

Spec == Init /\ [][Next]_vars

(* A session with out-of-range and missing inputs: fields cleared, a      *)
(* negative income, an income below the pre-tax deductions, and a stored   *)
(* scenario of an earlier version whose only key holds a text that is no   *)
(* number; loading it leaves every housing input missing.                  *)

\* a stored scenario whose housing inputs carry a local tax rate of 1.0% for
\* Texas, a state without the local-tax field in the form (line 810)
LocalRateBlob ==
    [selectedStates |-> <<"Texas", "Ohio">>,
     stateInputs |->
         [InitialStateInputs EXCEPT !["Texas"] = [@ EXCEPT !.localTaxRate = Num(10)]]]

InitJurisdictions ==
    /\ InitComponent("main", [n \in {"relocated"} |-> LocalRateBlob])
    /\ ProbesIdle

NextJurisdictions ==
    \/ \E v \in {EmptyStr, Str(20000), Str(670550)} : setIncome(v)
    \/ \E state \in {"Colorado", "North Carolina", "Florida"} : handleStateSelection(state)
    \/ \E v \in {EmptyStr} : handleStateInputChange("Ohio", "localTaxRate", v)
    \/ \E v \in {EmptyStr} : handleStateInputChange("North Carolina", "mortgageAmount", v)
    \/ handleLoadScenario("relocated")

SpecJurisdictions == InitJurisdictions /\ [][NextJurisdictions]_vars

LegacyBlob == [k401 |-> Text]

InitInputs ==
    /\ InitComponent("main", [n \in {"legacy"} |-> LegacyBlob])
    /\ ProbesIdle

InputEdits ==
    {<<"Texas", "mortgageAmount", EmptyStr>>,
     <<"Texas", "mortgageAmount", Str(2000000)>>,
     <<"Texas", "propertyTax", EmptyStr>>,
     <<"California", "mortgageAmount", Str(2000000)>>}

NextInputs ==
    \/ \E v \in {EmptyStr, Str(0 - 50000), Str(20000), Str(670550)} : setIncome(v)
    \/ \E v \in {EmptyStr} : setStGains(v)
    \/ \E v \in {EmptyStr} : setLtGains(v)
    \/ \E v \in {EmptyStr} : setHsa(v)
    \/ \E v \in {EmptyStr} : setK401(v)
    \/ \E v \in {EmptyStr} : setMedicalPremiums(v)
    \/ \E v \in {EmptyStr} : setOtherItemized(v)
    \/ \E e \in InputEdits : handleStateInputChange(e[1], e[2], e[3])
    \/ handleLoadScenario("legacy")

SpecInputs == InitInputs /\ [][NextInputs]_vars

(* A session of the retirement form of the backup variant: growth rate,  *)
(* current assets, base annual savings and FI target typed over.           *)

RetirementEdits ==
    {<<"portfolioGrowthRate", Str(0)>>, <<"portfolioGrowthRate", EmptyStr>>,
     <<"portfolioGrowthRate", Str(0 - 50)>>,
     <<"currentAssets", Str(0)>>, <<"currentAssets", Str(3000000)>>,
     <<"baseAnnualSavings", Str(0)>>, <<"baseAnnualSavings", Str(100)>>,
     <<"baseAnnualSavings", Str(0 - 10000)>>,
     <<"fiNumber", Str(50000)>>, <<"fiNumber", Str(1000000)>>}

InitRetirement == InitComponent("backup", EmptyMap) /\ ProbesIdle

NextRetirement ==
    \E e \in RetirementEdits : handleRetirementInputChange(e[1], e[2])

SpecRetirement == InitRetirement /\ [][NextRetirement]_vars

---------------------------------------------------------------------------
(* Properties *)

\* C1: calculateTax is non-decreasing and has no jump at a bracket edge: for
\* every table and every whole income I >= 0, tax(I) <= tax(I+1) <= tax(I) + r,
\* with r the highest marginal rate of the table (the tax on one more dollar).
C1_Monotone_NoJump ==
    [][ (taxIncome >= 0 /\ taxIncome' = taxIncome + 1)
        => /\ XLeq(taxResult, taxResult')
           /\ XLeq(taxResult', XAdd(taxResult, OneDollarAt(TopRate(tableOf(taxBrackets))))) ]_vars

\* the probe has stepped over the first federal bracket edge, into the 12% bracket
C1_Witness ==
    /\ taxBrackets = "federal"
    /\ taxSteps > 0
    /\ taxIncome = FEDERAL_BRACKETS_MFJ[2].min
    /\ taxResult = XAdd(<<Cents(2385), 0>>, OneDollarAt(1200))

\* C2: calculateTax returns 0 for every income <= 0 with any table, and 0 for
\* every income with an empty table (Texas, Florida).
C2_ZeroTax ==
    (taxIncome <= 0 \/ tableOf(taxBrackets) = << >>)
        => /\ taxResult = XZero
           /\ calculateTax(Cents(taxIncome), tableOf(taxBrackets)) = 0

\* a negative income on a table with brackets, and a positive income on the empty table
C2_Witness ==
    \/ taxIncome < 0 /\ taxSteps > 0 /\ taxBrackets = "California" /\ taxResult = XZero
    \/ taxIncome > 0 /\ taxSteps > 0 /\ taxBrackets = "Texas" /\ taxResult = XZero

\* C3: whenever the ordinary taxable income is at or above the top LTCG
\* ceiling (583750), the zero-rate and fifteen-percent allocations are 0 and
\* the capital-gains tax is 20% of the whole long-term gain: in the buy path,
\* in the rent path, and in every row of the phase-out helper.
C3_TopRateStacking ==
    \A s \in Range(selectedStates) :
        LET x == scenario(s)
            rows == phaseoutRows(s)
        IN  /\ x.ordinaryIncome >= Cents(583750)
                 => /\ x.taxableAtZero = 0
                    /\ x.taxableAtFifteen = 0
                    /\ x.capitalGainsTax = MulRate(longTermGains, 2000)
            /\ x.rentOrdinaryIncome >= Cents(583750)
                 => /\ x.rentTaxableAtZero = 0
                    /\ x.rentTaxableAtFifteen = 0
                    /\ x.rentCapitalGainsTax = MulRate(longTermGains, 2000)
            /\ \A i \in DOMAIN rows :
                  rows[i].delta.ordinaryIncome >= Cents(583750)
                     => /\ rows[i].delta.taxableAtZero = 0
                        /\ rows[i].delta.taxableAtFifteen = 0
                        /\ rows[i].delta.newCapitalGainsTax = MulRate(longTermGains, 2000)

\* Texas with no loan takes the standard deduction, so with income 670550 its
\* ordinary income is exactly 583750 in all three paths, and the gain of 10000
\* is taxed 2000
C3_Witness ==
    /\ "Texas" \in Range(selectedStates)
    /\ longTermGains = Cents(10000)
    /\ LET x == scenario("Texas")
           rows == phaseoutRows("Texas")
       IN  /\ x.ordinaryIncome = Cents(583750)
           /\ x.rentOrdinaryIncome = Cents(583750)
           /\ rows[1].delta.ordinaryIncome = Cents(583750)
           /\ x.capitalGainsTax = Cents(2000)
           /\ x.rentCapitalGainsTax = Cents(2000)
           /\ rows[1].delta.newCapitalGainsTax = Cents(2000)

\* C4: for every selected state, itemized.salt is min(state tax + property
\* tax + SDI + local tax, 40000), never above 40000 however large
\* totalSaltPaid is, and the federal itemized total is mortgage interest +
\* that capped SALT + other itemized.
C4_SaltCap ==
    \A s \in Range(selectedStates) :
        LET x == scenario(s)
            r == resultsByState[s]
            saltPaid == r.stateTax + r.itemized.propertyTax + r.sdiTax + r.localTax
        IN  /\ r.totalSaltPaid = saltPaid
            /\ r.itemized.salt = Min(saltPaid, Cents(40000))
            /\ r.itemized.salt <= Cents(40000)
            /\ x.totalFederalItemizedDeductions =
                  r.itemized.mortgageInterest + r.itemized.salt + r.itemized.other

\* California pays more than 40000 of state and property tax, and its SALT is
\* cut to 40000
C4_Witness ==
    /\ "California" \in Range(selectedStates)
    /\ resultsByState["California"].totalSaltPaid > Cents(40000)
    /\ resultsByState["California"].itemized.salt = Cents(40000)

\* C5: in the buy scenario the federal deduction is max(federal itemized
\* total, federal standard deduction) and the state deduction is max(state
\* itemized total, state standard deduction): each is >= both operands and
\* equal to one of them.
C5_DeductionSelection ==
    \A s \in Range(selectedStates) :
        LET x == scenario(s)
            fedItemized == x.totalFederalItemizedDeductions
            fedStandard == Cents(31500)
            stItemized == x.stateItemizedDed
            stStandard == stateStandardDedOf(s)
        IN  /\ resultsByState[s].deductionToUse = Max(fedItemized, fedStandard)
            /\ x.deductionToUse >= fedItemized
            /\ x.deductionToUse >= fedStandard
            /\ x.deductionToUse \in {fedItemized, fedStandard}
            /\ x.stateDeductionToUse = Max(stItemized, stStandard)
            /\ x.stateDeductionToUse >= stItemized
            /\ x.stateDeductionToUse >= stStandard
            /\ x.stateDeductionToUse \in {stItemized, stStandard}

\* California without loan and property tax takes both standard deductions,
\* while Ohio itemizes at both levels
C5_Witness ==
    /\ {"California", "Ohio"} \subseteq Range(selectedStates)
    /\ LET ca == scenario("California")
           oh == scenario("Ohio")
       IN  /\ ca.totalFederalItemizedDeductions < Cents(31500)
           /\ ca.deductionToUse = Cents(31500)
           /\ ca.stateItemizedDed < ca.stateStandardDed
           /\ ca.stateDeductionToUse = Cents(10404)
           /\ oh.totalFederalItemizedDeductions > Cents(31500)
           /\ oh.deductionToUse = oh.totalFederalItemizedDeductions
           /\ oh.stateItemizedDed > oh.stateStandardDed
           /\ oh.stateDeductionToUse = oh.stateItemizedDed

\* the principal-and-interest payment of C6: 0 without a principal or a rate
PrincipalAndInterest(amount, rate) ==
    IF amount = 0 \/ rate = 0 THEN 0
    ELSE paymentOf(amount, monthlyRateOf(rate), 30 * 12)

\* C6: the monthly buy housing cost is the principal-and-interest payment +
\* property tax / 12 + insurance / 12 for every combination of housing inputs,
\* a zero or absent principal or rate included (the payment is then 0, the
\* property tax and the insurance still count); and monthly net cash is
\* monthly take-home minus that housing cost.
C6_HousingCost ==
    \A s \in Range(selectedStates) :
        LET x == scenario(s)
            r == resultsByState[s]
        IN  /\ r.monthlyHousingCost =
                  PrincipalAndInterest(x.mortgageAmountVal, x.mortgageRateVal)
                  + Div12(x.propertyTaxVal) + Div12(x.homeInsuranceVal)
            /\ r.monthlyNetCash = r.monthlyTakeHome - r.monthlyHousingCost

\* a step that loads the stored scenario `name`
LoadStep(name) ==
    /\ name \in DOMAIN savedScenarios
    /\ handleLoadScenario(name) \/ handleLoadScenario_Backup(name)

\* C7: loading a name that was stored by handleSaveScenario (or
\* handleUpdateScenario) restores the household inputs, the selected states
\* and the housing inputs that were stored, fields that are 0 or an empty
\* string included, so that the outcome of every selected state after the
\* load is the outcome at the time of the save.
C7_RoundTrip ==
    [][ \A name \in ScenarioNames :
            (LoadStep(name) /\ name \in DOMAIN outcomeAtSave)
            => LET blob == savedScenarios[name]
               IN  /\ <<income', stGains', ltGains', hsa', k401', medicalPremiums',
                        otherItemized'>>
                        = <<blob.income, blob.stGains, blob.ltGains, blob.hsa, blob.k401,
                            blob.medicalPremiums, blob.otherItemized>>
                   /\ selectedStates' = blob.selectedStates
                   /\ stateInputs' = blob.stateInputs
                   /\ resultsByStateOf(household', selectedStates', stateInputs')
                        = outcomeAtSave[name] ]_vars

\* C8: loading a blob leaves every field that is absent from the blob at its
\* documented default, whatever its value before the load: income 250000,
\* short-term gains 5000, long-term gains 10000, HSA 8300, retirement
\* contribution 46000, medical premiums 6000, other itemized 5000, the empty
\* housing and expense maps, and the default retirement parameters.
C8_PartialLoadDefaults ==
    [][ \A name \in ScenarioNames :
            LoadStep(name)
            => LET blob == savedScenarios[name]
                   absent(key) == key \notin DOMAIN blob
               IN  /\ absent("income") => income' = Num(250000)
                   /\ absent("stGains") => stGains' = Num(5000)
                   /\ absent("ltGains") => ltGains' = Num(10000)
                   /\ absent("hsa") => hsa' = Num(8300)
                   /\ absent("k401") => k401' = Num(46000)
                   /\ absent("medicalPremiums") => medicalPremiums' = Num(6000)
                   /\ absent("otherItemized") => otherItemized' = Num(5000)
                   /\ absent("stateInputs") => stateInputs' = EmptyMap
                   /\ variant = "backup"
                         => /\ absent("cashFlowInputs") => cashFlowInputs' = EmptyMap
                            /\ absent("retirementInputs")
                                  => retirementInputs' = InitialRetirementInputs ]_vars

\* household inputs
householdInputs ==
    <<income, stGains, ltGains, hsa, k401, medicalPremiums, otherItemized>>
\* the housing inputs entered for a state
housingOf(inputs, s) ==
    IF s \in DOMAIN inputs THEN inputs[s]
    ELSE [f \in {"mortgageAmount", "mortgageRate", "propertyTax", "homeInsurance",
                 "localTaxRate", "monthlyRent"} |-> Undef]
\* the housing inputs that belong to the buy scenario of a state, and those
\* that belong to its rent scenario
buyInputs(inputs, s) ==
    LET c == housingOf(inputs, s)
    IN  <<c.mortgageAmount, c.mortgageRate, c.propertyTax, c.homeInsurance, c.localTaxRate>>
rentInputs(inputs, s) ==
    LET c == housingOf(inputs, s)
    IN  <<c.monthlyRent, c.localTaxRate>>
\* the outcome of a state without its rent sub-outcome
buyOutcome(r) == [f \in DOMAIN r \ {"rent"} |-> r[f]]

\* C9: with the household inputs fixed, every field of a state's rent
\* sub-outcome is unchanged by a step that changes its mortgage amount,
\* mortgage rate, property tax or home insurance, every field of its buy
\* outcome is unchanged by a step that changes its monthly rent, and its whole
\* outcome is unchanged by a step that changes which other states are selected
\* or their housing inputs.  (before and after are the memoized value before
\* and after the step.)
C9_Independence ==
    [][ \A before \in {resultsByState} :
        \A h \in {household'} :
        \A after \in {resultsByStateOf(h, selectedStates', stateInputs')} :
        \A s \in DOMAIN before \cap DOMAIN after :
            householdInputs' = householdInputs
            => /\ rentInputs(stateInputs', s) = rentInputs(stateInputs, s)
                    => after[s].rent = before[s].rent
               /\ buyInputs(stateInputs', s) = buyInputs(stateInputs, s)
                    => buyOutcome(after[s]) = buyOutcome(before[s])
               /\ housingOf(stateInputs', s) = housingOf(stateInputs, s)
                    => after[s] = before[s] ]_vars

\* California's loan, tax, insurance and rent have all been edited, Florida
\* has been selected, and Ohio is still selected with its first inputs
C9_Witness ==
    /\ {"California", "Ohio", "Florida"} \subseteq Range(selectedStates)
    /\ stateInputs["California"].mortgageAmount = Str(2000000)
    /\ stateInputs["California"].propertyTax = EmptyStr
    /\ stateInputs["California"].homeInsurance = EmptyStr
    /\ stateInputs["California"].monthlyRent = Str(5000)
    /\ stateInputs["Ohio"] = InitialStateInputs["Ohio"]
    /\ resultsByState["California"].rent.monthlyHousingCost = Cents(5000)
    /\ resultsByState["California"].monthlyHousingCost > Cents(10000)

\* C10: in the rent sub-scenario the federal deduction is the federal standard
\* deduction, the state taxable income is max(0, state AGI - state standard
\* deduction), and the monthly housing cost is the supplied monthly rent.
C10_RentScenario ==
    \A s \in Range(selectedStates) :
        LET r == resultsByState[s]
            stateAgi == IF s = "California" THEN agi + hsaDed ELSE agi
        IN  /\ r.rent.deductionToUse = Cents(31500)
            /\ r.rent.stateTaxableIncome = Max(0, stateAgi - stateStandardDedOf(s))
            /\ r.rent.monthlyHousingCost =
                  Cents(NumberOrZero(housingOf(stateInputs, s).monthlyRent))

\* California itemizes when buying and takes the standard deduction when
\* renting at the typed rent of 5000
C10_Witness ==
    /\ "California" \in Range(selectedStates)
    /\ stateInputs["California"].monthlyRent = Str(5000)
    /\ resultsByState["California"].deductionToUse > Cents(31500)
    /\ resultsByState["California"].rent.deductionToUse = Cents(31500)
    /\ resultsByState["California"].rent.monthlyHousingCost = Cents(5000)
    /\ resultsByState["California"].rent.stateTaxableIncome
          = agi + hsaDed - Cents(10404)

\* C11: for a state with an empty bracket table, with no short- or long-term
\* gains, no pre-tax deductions, no mortgage, no property tax, no other
\* itemized amount and no local tax rate, the total tax burden is the payroll
\* tax plus calculateTax(max(0, income - federal standard deduction), federal
\* brackets), and capital-gains tax, NIIT and state tax are 0.
C11_EndToEnd ==
    \A s \in Range(selectedStates) :
        LET c == housingOf(stateInputs, s)
        IN  (/\ STATE_TAX_DATA[s] = << >>
             /\ \A v \in {stGains, ltGains, hsa, k401, medicalPremiums, otherItemized,
                           c.mortgageAmount, c.propertyTax, c.localTaxRate} :
                    NumberOrZero(v) = 0)
            => LET x == scenario(s)
                   r == resultsByState[s]
               IN  /\ r.totalTaxBurden =
                          ficaTax
                          + calculateTax(Max(0, Cents(NumberOrZero(income)) - Cents(31500)),
                                         FEDERAL_BRACKETS_MFJ)
                   /\ x.capitalGainsTax = 0
                   /\ r.niit = 0
                   /\ r.stateTax = 0

\* Texas at income 250000 with everything else cleared: the burden is the
\* payroll tax plus the federal tax on 218500
C11_Witness ==
    /\ income = Num(250000)
    /\ "Texas" \in Range(selectedStates)
    /\ \A v \in {stGains, ltGains, hsa, k401, medicalPremiums, otherItemized} :
           v = EmptyStr
    /\ housingOf(stateInputs, "Texas").mortgageAmount = EmptyStr
    /\ housingOf(stateInputs, "Texas").propertyTax = EmptyStr
    /\ resultsByState["Texas"].totalTaxBurden =
           ficaTax + calculateTax(Cents(218500), FEDERAL_BRACKETS_MFJ)
    /\ resultsByState["Texas"].totalFederalTax > 0

\* C12: accounting identities of every outcome, buy and rent: total federal
\* tax = ordinary tax + capital-gains tax + NIIT; total tax burden = total
\* federal tax + payroll tax + state tax + SDI levy + local tax; annual
\* take-home = total income - total tax burden - (retirement + HSA + medical
\* pre-tax deductions); monthly take-home = annual take-home / 12 (to the cent).
C12_Accounting ==
    \A s \in Range(selectedStates) :
        LET x == scenario(s)
            h == household
            preTax == h.k401Ded + h.hsaDed + h.medicalDed
        IN  /\ x.totalFederalTax = x.ordinaryTax + x.capitalGainsTax + x.niit
            /\ x.totalTaxBurden =
                   x.totalFederalTax + h.ficaTax + x.stateTax + x.sdiTax + x.localTax
            /\ x.annualTakeHome = h.totalIncome - x.totalTaxBurden - preTax
            /\ x.annualTakeHome - 12 * x.monthlyTakeHome \in -11 .. 11
            /\ x.rentTotalFederalTax =
                   x.rentOrdinaryTax + x.rentCapitalGainsTax + x.rentNiit
            /\ x.rentTotalTaxBurden =
                   x.rentTotalFederalTax + h.ficaTax + x.rentStateTax + x.rentSdiTax
                   + x.rentLocalTax
            /\ x.rentAnnualTakeHome = h.totalIncome - x.rentTotalTaxBurden - preTax
            /\ x.rentAnnualTakeHome - 12 * x.rentMonthlyTakeHome \in -11 .. 11

\* California with every term of the identities non-zero
C12_Witness ==
    /\ "California" \in Range(selectedStates)
    /\ LET x == scenario("California")
       IN  /\ x.ordinaryTax > 0 /\ x.capitalGainsTax > 0 /\ x.niit > 0
           /\ x.stateTax > 0 /\ x.sdiTax > 0 /\ household.ficaTax > 0
           /\ household.k401Ded + household.hsaDed + household.medicalDed > 0
           /\ x.totalTaxBurden =
                  x.ordinaryTax + x.capitalGainsTax + x.niit + household.ficaTax
                  + x.stateTax + x.sdiTax
           /\ x.rentTotalTaxBurden # x.totalTaxBurden
           /\ x.monthlyTakeHome > 0

\* C13: for every combination of inputs, including missing or non-numeric
\* fields (which count as 0) and pre-tax deductions larger than the income, the
\* outcome of every selected state is evaluated and its federal and state
\* taxable incomes, of the buy and of the rent scenario, are >= 0.
C13_TaxableBasesFloored ==
    /\ DOMAIN resultsByState = Range(selectedStates)
    /\ \A s \in Range(selectedStates) :
           LET x == scenario(s)
           IN  /\ x.federalTaxableIncome >= 0
               /\ x.stateTaxableIncome >= 0
               /\ x.rentFederalTaxableIncome >= 0
               /\ x.rentStateTaxableIncome >= 0

\* a loaded legacy scenario: k401 is no number, every housing input is missing,
\* and with income and gains cleared the pre-tax deductions exceed the income
C13_Witness ==
    /\ k401 = Text
    /\ stateInputs = EmptyMap
    /\ income = EmptyStr
    /\ household.k401Ded = 0
    /\ household.hsaDed + household.medicalDed > household.totalIncome
    /\ household.agi < 0
    /\ \A s \in Range(selectedStates) :
           LET x == scenario(s)
           IN  /\ x.mortgageAmountVal = 0
               /\ x.federalTaxableIncome = 0
               /\ x.stateTaxableIncome = 0
               /\ x.rentFederalTaxableIncome = 0
               /\ x.rentStateTaxableIncome = 0

\* C14: negative income is floored, not rejected: when a negative gross wage
\* income is typed over an income of 0, every outcome stays what it was for
\* income 0, and payroll tax, SDI levy, local tax and total tax burden are
\* not negative.
C14_NegativeIncomeFloored ==
    [][ \A before \in {resultsByState} :
        \A h \in {household'} :
        \A after \in {resultsByStateOf(h, selectedStates', stateInputs')} :
            (/\ NumberOrZero(income) = 0
             /\ NumberOrZero(income') < 0
             /\ <<stGains, ltGains, hsa, k401, medicalPremiums, otherItemized,
                  selectedStates, stateInputs>>'
                = <<stGains, ltGains, hsa, k401, medicalPremiums, otherItemized,
                    selectedStates, stateInputs>>)
            => /\ after = before
               /\ h.ficaTax >= 0
               /\ \A s \in DOMAIN after :
                      /\ after[s].sdiTax >= 0
                      /\ after[s].localTax >= 0
                      /\ after[s].totalTaxBurden >= 0 ]_vars

\* C15: the first-year interest of getInterestSchedule does not depend on the
\* requested length: asking for one more year leaves entry 1 as it was, so for
\* every length it is the first-year interest of the 1-year schedule (the one
\* used for the annual deduction), in particular for the 10-year schedule.
C15_FirstYearStable ==
    [][ schedYears' = schedYears + 1
        => /\ Len(schedResult') = schedYears'
           /\ schedResult'[1] = schedResult[1] ]_vars

\* the 10-year schedule of a 750000 loan starts with the year-1 interest of
\* the 1-year schedule
C15_Witness ==
    /\ schedYears = 10
    /\ schedAmount = 750000
    /\ Len(schedResult) = 10
    /\ schedResult[1] > 0
    /\ schedResult[1] =
           firstYearInterest(getInterestSchedule(Cents(schedAmount), schedRate, 1))

\* C16: for every principal > 0, rate > 0 and requested length, the per-year
\* interest of getInterestSchedule is non-increasing from one year to the next.
C16_InterestNonIncreasing ==
    (schedAmount > 0 /\ schedRate > 0)
    => \A k \in 1 .. Len(schedResult) - 1 : schedResult[k + 1] <= schedResult[k]

\* a 10-year schedule whose interest falls strictly every year
C16_Witness ==
    /\ schedYears = 10
    /\ schedAmount = 450000
    /\ schedRate = 55
    /\ Len(schedResult) = 10
    /\ \A k \in 1 .. 9 : schedResult[k + 1] < schedResult[k]
    /\ schedResult[10] > 0

\* C17: the backsolver reports the unreachable sentinel exactly when the
\* target is unreachable: for rate > 0 when target * r + contribution <= 0 or
\* currentAssets * r + contribution <= 0, for a zero rate when contribution
\* <= 0; in the zero-rate reachable case it reports (target - currentAssets) /
\* contribution; it never yields NaN.
C17_SentinelExactlyWhenUnreachable ==
    LET i == backsolverInputs
        row == backsolverCalculations.table[1]
        unreachable ==
            IF i.rate > 0
            THEN \/ permille(i.targetAssets, i.rate) + i.totalAnnualContribution <= 0
                 \/ permille(i.currentAssets, i.rate) + i.totalAnnualContribution <= 0
            ELSE i.totalAnnualContribution <= 0
    IN  i.rate >= 0
        => /\ Len(backsolverCalculations.table) = 1
           /\ row.years.k # "NaN"
           /\ (row.years = Never) <=> unreachable
           /\ (i.rate = 0 /\ ~unreachable)
                  => row.years = [k |-> "quotient", a |-> i.targetAssets - i.currentAssets,
                                  b |-> i.totalAnnualContribution, p |-> 0]

\* C18: whenever the target is reachable the reported years are the solved
\* years, however large; only the chart horizon is capped, at 50 years.
C18_ReportedYearsUnclamped ==
    LET i == backsolverInputs
        solved == solvedYears(i.rate, i.targetAssets, i.currentAssets,
                              i.totalAnnualContribution)
    IN  /\ backsolverCalculations.maxYears <= 50
        /\ solved # Never
              => backsolverCalculations.table[1].years = solved

\* C19: whenever the reported years are finite, compounding forward from the
\* current assets with the annual contribution at the growth rate for
\* ceil(years) years reaches or exceeds the target, and for ceil(years) - 1
\* years falls short of it.
C19_BacksolveForwardConsistent ==
    LET i == backsolverInputs
        y == backsolverCalculations.table[1].years
    IN  y.k \in {"quotient", "log"}
        => /\ compound(i.currentAssets, i.totalAnnualContribution, i.rate,
                       ceilYears(y)) >= i.targetAssets
           /\ compound(i.currentAssets, i.totalAnnualContribution, i.rate,
                       ceilYears(y) - 1) < i.targetAssets

\* the projector's rows of a state are the years 2..10, one row each
phaseoutYears(state) ==
    /\ DOMAIN perStateInterestSchedules[state] = 1 .. 9
    /\ \A i \in 1 .. 9 : perStateInterestSchedules[state][i].year = i + 1

\* the combined federal and state monthly take-home change of a row against
\* year 1: the federal part against the evaluator's monthly take-home, the
\* state part against the state deduction of year 1, whose interest is the
\* first entry of the capped 10-year schedule (0 without a loan)
phaseoutChange(state, row) ==
    LET c == housingOf(stateInputs, state)
        res == resultsByState[state]
        schedule ==
            getInterestSchedule(
                Min(Cents(NumberOrZero(c.mortgageAmount)), Cents(FEDERAL_MORTGAGE_DEBT_LIMIT)),
                NumberOrZero(c.mortgageRate), 10)
        yearOneStateDed ==
            Max(interestOfYear(schedule, 1) + Cents(NumberOrZero(c.propertyTax))
                + otherItemizedVal, res.stateStandardDed)
    IN  (row.delta.newMonthlyTakeHome - res.monthlyTakeHome)
        + calcStateMonthlyTakeHomeDelta(
              [origDeduction |-> yearOneStateDed, newDeduction |-> row.stateDedUsed,
               agi |-> res.agi, state |-> state,
               stateStandardDed |-> res.stateStandardDed,
               stateTaxBrackets |-> STATE_TAX_DATA[state],
               localTax |-> res.localTax, sdiTax |-> res.sdiTax])

\* C20: the phase-out projector yields for every selected state exactly one row
\* for each year 2..10; each row's impact is the combined federal and state
\* monthly take-home change against the year-1 baseline, and it is never
\* positive and never larger than the impact of the year before.
C20_PhaseoutImpact ==
    /\ DOMAIN perStateInterestSchedules = Range(selectedStates)
    /\ \A s \in Range(selectedStates) :
           /\ phaseoutYears(s)
           /\ \A i \in 1 .. 9 :
                  LET row == phaseoutRows(s)[i]
                      shown == perStateInterestSchedules[s][i]
                  IN  /\ shown.impact = phaseoutChange(s, row)
                      /\ shown.impact <= 0
                      /\ i > 1 => shown.impact <= perStateInterestSchedules[s][i - 1].impact

\* C21: the interest shown in each phase-out table row (years 2..10) is the
\* year's interest of the 10-year schedule on the full mortgage amount, while
\* the year-1 itemization and the phase-out impact use the schedule on the
\* principal capped at the deductible debt limit; above the limit the two differ.
C21_CallSitesApart ==
    \A s \in Range(selectedStates) :
        LET c == housingOf(stateInputs, s)
            amount == Cents(NumberOrZero(c.mortgageAmount))
            rate == NumberOrZero(c.mortgageRate)
            limit == Cents(FEDERAL_MORTGAGE_DEBT_LIMIT)
            full == getInterestSchedule(amount, rate, 10)
            capped == getInterestSchedule(Min(amount, limit), rate, 10)
            rows == phaseoutRows(s)
            table == phaseoutTable(s)
        IN  (amount > 0 /\ rate > 0)
            => /\ DOMAIN table = 1 .. 9
               /\ resultsByState[s].itemized.mortgageInterest = capped[1]
               /\ \A i \in 1 .. 9 :
                      LET shown == table[i]
                          row == rows[i]
                      IN  /\ shown.year = i + 1
                          /\ shown.interest = full[i + 1]
                          /\ shown.impact = row.impact
                          /\ row.interest = capped[i + 1]
                          /\ row.deductionUsed =
                                 Max(capped[i + 1] + resultsByState[s].itemized.salt
                                     + otherItemizedVal,
                                     Cents(FEDERAL_STANDARD_DEDUCTION_MFJ))
                          /\ amount > limit => shown.interest > row.interest

\* California with a 2000000 mortgage: the table shows the interest of the full
\* amount, the deductions use the interest of 750000
C21_Witness ==
    /\ "California" \in Range(selectedStates)
    /\ housingOf(stateInputs, "California").mortgageAmount = Str(2000000)
    /\ NumberOrZero(housingOf(stateInputs, "California").mortgageRate) > 0
    /\ LET table == phaseoutTable("California")
           rows == phaseoutRows("California")
       IN  /\ DOMAIN table = 1 .. 9
           /\ \A i \in 1 .. 9 : table[i].interest > 2 * rows[i].interest
           /\ rows[1].interest > 0
           /\ table[1].impact < 0

\* the tax on an income when bracket i takes the next span of income at its
\* rate: max - min + 1 dollars for a finite max (for the first bracket, whose
\* min is 0, max dollars unless firstInclusive), the rest for an infinite max
RECURSIVE taxBySpans(_, _, _, _)
taxBySpans(brackets, i, remaining, firstInclusive) ==
    IF i > Len(brackets) \/ remaining <= 0 THEN XZero
    ELSE LET b == brackets[i]
             span == IF b.max = Infinity THEN remaining
                     ELSE IF b.min > 0 \/ firstInclusive
                          THEN Cents(b.max - b.min + 1)
                          ELSE Cents(b.max)
             taken == Min(remaining, span)
         IN  XAdd(XRate(taken, b.rate),
                  taxBySpans(brackets, i + 1, remaining - taken, firstInclusive))

\* C22 as stated: in calculateTax the span of income taxable at a bracket's
\* rate is max - min + 1 for every bracket with a finite max of every table,
\* including the first bracket, whose min is 0.
C22_SpanInclusive ==
    taxResult = taxBySpans(tableOf(taxBrackets), 1, Cents(taxIncome), TRUE)

\* C22 amended: the span is max - min + 1 for every bracket with a finite max
\* and min > 0, and max for the first bracket, whose min is 0.
C22_SpanAmended ==
    taxResult = taxBySpans(tableOf(taxBrackets), 1, Cents(taxIncome), FALSE)

\* one dollar above the second federal bracket: 23850 at 10%, 73100 at 12%,
\* 1 at 22%
C22_Witness ==
    /\ taxBrackets = "federal"
    /\ taxIncome = 96951
    /\ taxResult = XAdd(XRate(Cents(23850), 1000),
                        XAdd(XRate(Cents(96950 - 23851 + 1), 1200),
                             XRate(Cents(1), 2200)))

\* an allocation of a long-term gain to the 0%, 15% and 20% tiers that is
\* sound for an ordinary income: no tier gets a negative amount, the 20% tier
\* gets what the other two leave (so the three sum to the gain), and a tier
\* whose ceiling the ordinary income reaches gets nothing
soundAllocation(ordinary, gains, atZero, atFifteen, gainsTax) ==
    LET atTwenty == gains - atZero - atFifteen
    IN  /\ atZero >= 0 /\ atFifteen >= 0 /\ atTwenty >= 0
        /\ gainsTax = MulRate(atFifteen, 1500) + MulRate(atTwenty, 2000)
        /\ ordinary >= Cents(LTCG_BRACKETS_MFJ[1].max) => atZero = 0
        /\ ordinary >= Cents(LTCG_BRACKETS_MFJ[2].max) => atFifteen = 0

\* C23: for every long-term gain >= 0 and every ordinary taxable income, a
\* negative one included, the amounts allocated to the 0%, 15% and 20% tiers are
\* each >= 0 and sum to the gain, and a tier whose ceiling the ordinary income
\* reaches or exceeds receives 0: in the buy and the rent scenario and in the
\* phase-out re-evaluation.
C23_GainsAllocation ==
    longTermGains >= 0
    => \A s \in Range(selectedStates) :
          LET x == scenario(s)
              d == capitalGainsDelta(x.ordinaryIncome, longTermGains)
          IN  /\ soundAllocation(x.ordinaryIncome, longTermGains, x.taxableAtZero,
                                 x.taxableAtFifteen, x.capitalGainsTax)
              /\ soundAllocation(x.rentOrdinaryIncome, longTermGains,
                                 x.rentTaxableAtZero, x.rentTaxableAtFifteen,
                                 x.rentCapitalGainsTax)
              /\ soundAllocation(x.ordinaryIncome, longTermGains, d.taxableAtZero,
                                 d.taxableAtFifteen, d.capitalGainsTax)

\* Texas with a federal taxable income below the gain: the ordinary income is
\* negative and the whole gain is taxed at 0%
C23_Witness ==
    /\ longTermGains = Cents(10000)
    /\ "Texas" \in Range(selectedStates)
    /\ LET x == scenario("Texas")
       IN  /\ x.federalTaxableIncome < longTermGains
           /\ x.ordinaryIncome < 0
           /\ x.taxableAtZero = longTermGains
           /\ x.taxableAtFifteen = 0
           /\ x.capitalGainsTax = 0

\* C24: the state itemized total is the first-year interest on min(principal,
\* state debt limit) + property tax + other itemized, with a state debt limit
\* of 1000000 for California and 750000 for every other state, while the
\* federal itemization always uses 750000; the SALT cap of 40000 is not
\* applied to the state total.
C24_StateItemization ==
    \A s \in Range(selectedStates) :
        LET c == housingOf(stateInputs, s)
            x == scenario(s)
            amount == Cents(NumberOrZero(c.mortgageAmount))
            rate == NumberOrZero(c.mortgageRate)
            stateLimit == IF s = "California" THEN Cents(1000000) ELSE Cents(750000)
            interestOn(principal) ==
                firstYearInterest(getInterestSchedule(principal, rate, 1))
        IN  /\ x.stateItemizedDed =
                   interestOn(Min(amount, stateLimit))
                   + Cents(NumberOrZero(c.propertyTax)) + otherItemizedVal
            /\ x.federalAnnualMortgageInterest = interestOn(Min(amount, Cents(750000)))
            /\ x.stateItemizedDed >= x.stateStandardDed
                   => x.stateDeductionToUse = x.stateItemizedDed

\* California and Texas both with a 2000000 mortgage: California itemizes the
\* interest of 1000000, more than the federal interest of 750000, and its total
\* exceeds the SALT cap; Texas itemizes the interest of 750000
C24_Witness ==
    /\ {"California", "Texas"} \subseteq Range(selectedStates)
    /\ housingOf(stateInputs, "California").mortgageAmount = Str(2000000)
    /\ housingOf(stateInputs, "Texas").mortgageAmount = Str(2000000)
    /\ LET ca == scenario("California")
           tx == scenario("Texas")
       IN  /\ ca.stateAnnualMortgageInterest > ca.federalAnnualMortgageInterest
           /\ ca.federalAnnualMortgageInterest > 0
           /\ ca.stateDeductionToUse = ca.stateItemizedDed
           /\ ca.stateItemizedDed > Cents(SALT_CAP)
           /\ tx.stateAnnualMortgageInterest = tx.federalAnnualMortgageInterest
           /\ tx.stateAnnualMortgageInterest > 0

\* C25: with no amortizable loan (mortgage amount or mortgage rate zero or
\* absent) the phase-out projector reports an impact of exactly 0 for every
\* year 2..10 in every selected state, also in those with a non-empty state
\* bracket table.
C25_NoLoanZeroImpact ==
    \A s \in Range(selectedStates) :
        LET c == housingOf(stateInputs, s)
            noLoan == \/ NumberOrZero(c.mortgageAmount) <= 0
                      \/ NumberOrZero(c.mortgageRate) <= 0
            rows == perStateInterestSchedules[s]
        IN  noLoan => \A i \in 1 .. 9 : rows[i].impact = 0

\* the "original" state taxable income of the projector's year-1 baseline:
\* Math.max(0, agi - origStateDed) in calcStateMonthlyTakeHomeDelta
projectedStateTaxableIncome(state) ==
    LET row == phaseoutRows(state)[1]
        res == resultsByState[state]
    IN  IF row.origStateDed = NaN THEN NaN ELSE Max(0, res.agi - row.origStateDed)

\* C26: for every selected state with a state bracket table, the "original"
\* state taxable income the phase-out projector derives for year 1 equals the
\* buy scenario's stateTaxableIncome, California included.
C26_BaselineAgrees ==
    \A s \in Range(selectedStates) :
        STATE_TAX_DATA[s] # << >> =>
            projectedStateTaxableIncome(s) = scenario(s).stateTaxableIncome

\* C27: for every selected state and non-negative inputs the buy scenario's
\* total tax burden is at most the rent scenario's, so the "Monthly Tax Savings"
\* of the rent-vs-buy table, buy monthly take-home minus rent monthly
\* take-home, is never negative.
C27_BuyNeverTaxedMore ==
    \A s \in Range(selectedStates) :
        LET x == scenario(s)
            res == resultsByState[s]
            taxSavings == res.monthlyTakeHome - res.rent.monthlyTakeHome
        IN  grossIncome >= 0 =>
                /\ x.totalTaxBurden <= x.rentTotalTaxBurden
                /\ taxSavings >= 0

\* Colorado, North Carolina and Florida selected next to California, with no
\* loan in North Carolina: California's buyer saves tax, North Carolina's buyer
\* is on the standard deductions and pays what the renter pays
C27_Witness ==
    /\ {"California", "Colorado", "North Carolina", "Florida"} \subseteq Range(selectedStates)
    /\ grossIncome > 0
    /\ LET ca == scenario("California")
           nc == scenario("North Carolina")
       IN  /\ ca.totalTaxBurden < ca.rentTotalTaxBurden
           /\ ca.monthlyTakeHome > ca.rentMonthlyTakeHome
           /\ nc.mortgageAmountVal = 0
           /\ nc.totalTaxBurden = nc.rentTotalTaxBurden
           /\ nc.totalTaxBurden > 0

\* C30: local tax is charged only in the states of STATES_WITH_LOCAL_TAX; in
\* every other selected state localTax is 0 in the buy and in the rent outcome,
\* whatever localTaxRate the state's housing inputs contain.
C30_LocalTaxOnlyWhereFlagged ==
    \A s \in Range(selectedStates) \ Range(STATES_WITH_LOCAL_TAX) :
        LET res == resultsByState[s]
        IN  /\ res.localTax = 0
            /\ res.rent.localTax = 0

\* C28: whenever the backsolver reports a finite years-to-target it is >= 0,
\* also for current assets at or above the target. A quotient a / b with b > 0
\* is >= 0 exactly when a >= 0, and log(a / b) / log(1 + p) with p > 0 exactly
\* when a >= b.
C28_FiniteYearsNonNegative ==
    \A i \in 1 .. Len(backsolverCalculations.table) :
        LET years == backsolverCalculations.table[i].years
        IN  /\ years.k = "quotient" => years.a >= 0
            /\ years.k = "log" => years.a >= years.b

\* selectedScenario is "" or a stored name, and the list shown is the stored map
scenarioStoreConsistent ==
    /\ selectedScenario = "" \/ selectedScenario \in DOMAIN savedScenarios
    /\ savedScenarios = localStorage

\* a step writes the stored map only as a save under a non-empty name or as an
\* update or delete of the selected scenario
scenarioStoreStep ==
    localStorage' # localStorage =>
        \/ /\ scenarioName # ""
           /\ localStorage' = [x \in DOMAIN localStorage \cup {scenarioName} |->
                                  IF x = scenarioName THEN scenarioData
                                  ELSE localStorage[x]]
        \/ /\ selectedScenario # ""
           /\ \/ localStorage' = [x \in DOMAIN localStorage |->
                                      IF x = selectedScenario THEN scenarioData
                                      ELSE localStorage[x]]
              \/ localStorage' = [x \in DOMAIN localStorage \ {selectedScenario} |->
                                      localStorage[x]]

\* C29: after any sequence of save, load, update and delete operations,
\* selectedScenario is the empty string or the name of a scenario in
\* savedScenarios, and savedScenarios equals the stored scenario map; a save
\* with an empty name and an update or delete with no selected scenario leave
\* the stored map unchanged.
C29_ScenarioStore == [](scenarioStoreConsistent) /\ [][scenarioStoreStep]_vars

\* the stored scenario "old" was loaded and deleted, the inputs it restored
\* were saved as "a", and "a" was loaded
C29_Witness ==
    /\ selectedScenario = "a"
    /\ DOMAIN savedScenarios = {"a"}
    /\ savedScenarios = localStorage
    /\ localStorage["a"].income = Num(120000)

=============================================================================
